---- MODULE Spec2Model ----
(***************************************************************************)
(* A model of module-to-cli's introspection engine (class ModuleParser):   *)
(* the type normalizer parseType, the documentation-comment extractor      *)
(* parseJSDoc, the member classifier and the module walker.                *)
(*                                                                         *)
(* Text is modelled character by character: a string is a sequence of      *)
(* one-character strings, so that includes / replace / endsWith / split    *)
(* and the regular expressions of the source are computed, not assumed.    *)
(* A qualified name such as "A.B.f" is the sequence of its dot-separated   *)
(* segments <<"A", "B", "f">> (identifiers hold no dot).                   *)
(***************************************************************************)
EXTENDS Integers, Sequences, FiniteSets, TLC

VARIABLES
    config,       \* this.config of the parser under study
    typeText,     \* parseType: the type text the normalizer was first called on
    pending,      \* parseType: arguments of the calls still to be made (depth first)
    lastCall,     \* parseType: the call made last, <<argument, returned node>>
    fileContent,  \* the source file on disk, as the syntax tree ts-morph builds from it;
                  \* <<>> when there is no readable file at filePath
    filePath,     \* the path the ModuleToCLI instances are constructed with
    project,      \* per ModuleToCLI instance: the source files held by this.project
    results,      \* per ModuleToCLI instance: the outcomes of its get() calls, in order
    argv,         \* Deno.args of the command-line process
    pc,           \* the command-line process: the await or foreign call it is at
    frame,        \* the command-line process: the local variables of main()
    stdout,       \* what the process has written to standard output, in order
    stderr,       \* what the process has written to standard error, in order
    exitCode,     \* <<>> while the process runs, then <<its exit status>>
    calls,        \* the constructions and calls made on the imported module, in order
    publishOptions, \* the options publishPackage is called with
    disk,         \* the files of the working directory: path -> content, Absent if none
    git,          \* the git repository of the working directory and its remote
    executed,     \* the argument lists of the deno commands run, in order
    publish       \* publishPackage: the await it is at and its local variables

cliVars == <<argv, pc, frame, stdout, stderr, exitCode, calls>>

publishVars == <<publishOptions, disk, git, executed, publish>>

vars == <<config, typeText, pending, lastCall, fileContent, filePath, project, results,
          cliVars, publishVars>>

---------------------------------------------------------------------------
(* Strings as sequences of characters.                                     *)

LowerCase == {"a","b","c","d","e","f","g","h","i","j","k","l","m",
              "n","o","p","q","r","s","t","u","v","w","x","y","z"}
UpperCase == {"A","B","C","D","E","F","G","H","I","J","K","L","M",
              "N","O","P","Q","R","S","T","U","V","W","X","Y","Z"}
Digits == {"0","1","2","3","4","5","6","7","8","9"}

\* \w of a JavaScript regular expression
WordChar(c) == c \in LowerCase \cup UpperCase \cup Digits \cup {"_"}

WhiteSpace(c) == c \in {" ", "\t", "\n"}

\* s.slice(from - 1, to) in the 1-based positions of a sequence
Slice(s, from, to) == IF from > to THEN <<>> ELSE SubSeq(s, from, to)

\* whether sub occurs in s at position i
OccursAt(s, sub, i) ==
    /\ i >= 1
    /\ i + Len(sub) - 1 <= Len(s)
    /\ \A k \in 1..Len(sub) : s[i + k - 1] = sub[k]

\* s.indexOf(sub) + 1: the first position of sub in s, 0 when there is none
IndexOf(s, sub) ==
    LET hits == {i \in 1..(Len(s) + 1) : OccursAt(s, sub, i)}
    IN  IF hits = {} THEN 0 ELSE CHOOSE i \in hits : \A j \in hits : i <= j

\* s.lastIndexOf(sub) + 1
LastIndexOf(s, sub) ==
    LET hits == {i \in 1..(Len(s) + 1) : OccursAt(s, sub, i)}
    IN  IF hits = {} THEN 0 ELSE CHOOSE i \in hits : \A j \in hits : i >= j

\* s.includes(sub)
Includes(s, sub) == IndexOf(s, sub) # 0

\* s.startsWith(sub)
StartsWith(s, sub) == OccursAt(s, sub, 1)

\* s.endsWith(sub)
EndsWith(s, sub) == Len(sub) <= Len(s) /\ OccursAt(s, sub, Len(s) - Len(sub) + 1)

\* s.replace(sub, rep) with a string pattern: the first occurrence only
ReplaceFirst(s, sub, rep) ==
    LET i == IndexOf(s, sub)
    IN  IF i = 0 THEN s
        ELSE Slice(s, 1, i - 1) \o rep \o Slice(s, i + Len(sub), Len(s))

\* s.trim()
Trim(s) ==
    LET keep == {i \in 1..Len(s) : ~WhiteSpace(s[i])}
    IN  IF keep = {} THEN <<>>
        ELSE LET lo == CHOOSE i \in keep : \A j \in keep : i <= j
                 hi == CHOOSE i \in keep : \A j \in keep : i >= j
             IN  SubSeq(s, lo, hi)

\* s.split(c) for a one-character separator: the pieces, empty ones included
RECURSIVE Split(_, _)
Split(s, c) ==
    LET i == IndexOf(s, <<c>>)
    IN  IF i = 0 THEN <<s>>
        ELSE <<Slice(s, 1, i - 1)>> \o Split(Slice(s, i + 1, Len(s)), c)

\* xs.map(f)
Map(xs, f(_)) == [i \in 1..Len(xs) |-> f(xs[i])]

---------------------------------------------------------------------------
(* The type normalizer: ModuleParser.parseType and splitGenericArgs.       *)

\* DEFAULT_AST_CONFIG, the configuration every caller in the repository uses
DEFAULT_AST_CONFIG ==
    [captureInstanceMethods |-> TRUE, captureStaticMethods |-> TRUE,
     capturePropertyMethods |-> TRUE, captureGetAccessors |-> TRUE,
     captureSetAccessors |-> TRUE, captureArrowFunctions |-> TRUE,
     captureComplexTypes |-> TRUE]

S_Promise == <<"P","r","o","m","i","s","e","<">>
S_Array == <<"A","r","r","a","y","<">>
S_Undefined == <<"|","u","n","d","e","f","i","n","e","d">>
S_Null == <<"|","n","u","l","l">>

\* One level of a TypeInfo: composite names the optional field that is present
\* (typeArguments, unionTypes or intersectionTypes; "none" for a plain type) and
\* children holds the type texts parseType is called on to fill it.
TypeNode(baseType, composite, children, isOptional, isNullable, rawType) ==
    [baseType |-> baseType, composite |-> composite, children |-> children,
     isOptional |-> isOptional, isNullable |-> isNullable, rawType |-> rawType]

\* cleanType.match(/Promise<(.+)>/) and /Array<(.+)>/: the leftmost "Name<", at
\* least one character, and the greedy ".+" runs to the last ">" of the text.
\* The result is <<>> for no match, else <<group 1>>.
MatchNamed(cleanType, opener) ==
    LET i == IndexOf(cleanType, opener)
        j == LastIndexOf(cleanType, <<">">>)
        from == i + Len(opener)
    IN  IF i # 0 /\ j >= from + 1 THEN <<Slice(cleanType, from, j - 1)>> ELSE <<>>

\* cleanType.match(/(\w+)<(.+)>/): the leftmost "<" that follows a word
\* character; group 1 is the run of word characters before it, group 2 runs to
\* the last ">".  <<>> for no match, else <<group 1, group 2>>.
MatchGeneric(cleanType) ==
    LET opens == {k \in 2..Len(cleanType) :
                     cleanType[k] = "<" /\ WordChar(cleanType[k - 1])}
        j == LastIndexOf(cleanType, <<">">>)
    IN  IF opens = {} THEN <<>>
        ELSE LET k == CHOOSE x \in opens : \A y \in opens : x <= y
                 starts == {p \in 1..(k - 1) :
                               \A q \in p..(k - 1) : WordChar(cleanType[q])}
                 p == CHOOSE x \in starts : \A y \in starts : x <= y
             IN  IF j >= k + 2
                 THEN <<Slice(cleanType, p, k - 1), Slice(cleanType, k + 1, j - 1)>>
                 ELSE <<>>

\* splitGenericArgs: the loop over the characters, as <<result, currentArg, depth>>
RECURSIVE SplitLoop(_, _, _, _)
SplitLoop(argsString, result, currentArg, depth) ==
    IF argsString = <<>> THEN <<result, currentArg, depth>>
    ELSE LET char == Head(argsString)
             rest == Tail(argsString)
         IN  IF char = "<" THEN SplitLoop(rest, result, Append(currentArg, char), depth + 1)
             ELSE IF char = ">" THEN SplitLoop(rest, result, Append(currentArg, char), depth - 1)
             ELSE IF char = "," /\ depth = 0
                  THEN SplitLoop(rest, Append(result, Trim(currentArg)), <<>>, depth)
             ELSE SplitLoop(rest, result, Append(currentArg, char), depth)

splitGenericArgs(argsString) ==
    LET end == SplitLoop(argsString, <<>>, <<>>, 0)
    IN  IF Trim(end[2]) # <<>> THEN Append(end[1], Trim(end[2])) ELSE end[1]

\* the early return for an empty type text or captureComplexTypes = false
EarlyReturn(typeString) ==
    TypeNode(typeString, "none", <<>>, FALSE, FALSE, typeString)

IsOptionalText(typeString) ==
    EndsWith(typeString, <<"?">>) \/ Includes(typeString, S_Undefined)

IsNullableText(typeString) == Includes(typeString, S_Null)

\* typeString.replace('?', '').replace('|undefined', '').replace('|null', '').trim()
CleanType(typeString) ==
    Trim(ReplaceFirst(ReplaceFirst(ReplaceFirst(typeString, <<"?">>, <<>>),
                                   S_Undefined, <<>>),
                      S_Null, <<>>))

PromiseBranch(typeString, cleanType, isOptional, isNullable) ==
    TypeNode(<<"P","r","o","m","i","s","e">>, "typeArguments",
             <<MatchNamed(cleanType, S_Promise)[1]>>, isOptional, isNullable, typeString)

ArraySuffixBranch(typeString, cleanType, isOptional, isNullable) ==
    TypeNode(<<"A","r","r","a","y">>, "typeArguments",
             <<Slice(cleanType, 1, Len(cleanType) - 2)>>, isOptional, isNullable, typeString)

ArrayGenericBranch(typeString, cleanType, isOptional, isNullable) ==
    TypeNode(<<"A","r","r","a","y">>, "typeArguments",
             <<MatchNamed(cleanType, S_Array)[1]>>, isOptional, isNullable, typeString)

GenericBranch(typeString, cleanType, isOptional, isNullable) ==
    LET genericMatch == MatchGeneric(cleanType)
    IN  TypeNode(genericMatch[1], "typeArguments", splitGenericArgs(genericMatch[2]),
                 isOptional, isNullable, typeString)

TupleBranch(typeString, cleanType, isOptional, isNullable) ==
    TypeNode(cleanType, "none", <<>>, isOptional, isNullable, typeString)

UnionBranch(typeString, cleanType, isOptional, isNullable) ==
    LET types == Map(Split(cleanType, "|"), Trim)
    IN  TypeNode(types[1], "unionTypes", types, isOptional, isNullable, typeString)

IntersectionBranch(typeString, cleanType, isOptional, isNullable) ==
    LET types == Map(Split(cleanType, "&"), Trim)
    IN  TypeNode(types[1], "intersectionTypes", types, isOptional, isNullable, typeString)

\* the rawType of the default case taken from the cleaned text
DefaultBranchCleanRaw(typeString, cleanType, isOptional, isNullable) ==
    TypeNode(cleanType, "none", <<>>, isOptional, isNullable, cleanType)

DefaultBranch(typeString, cleanType, isOptional, isNullable) ==
    TypeNode(cleanType, "none", <<>>, isOptional, isNullable, typeString)

\* the branches of parseType, tried in the order of the source, once the
\* flags are taken and the text is cleaned
SelectBranch(typeString, cleanType, isOptional, isNullable) ==
    IF Includes(cleanType, S_Promise) /\ MatchNamed(cleanType, S_Promise) # <<>>
    THEN PromiseBranch(typeString, cleanType, isOptional, isNullable)
    ELSE IF EndsWith(cleanType, <<"[", "]">>)
    THEN ArraySuffixBranch(typeString, cleanType, isOptional, isNullable)
    ELSE IF Includes(cleanType, S_Array) /\ MatchNamed(cleanType, S_Array) # <<>>
    THEN ArrayGenericBranch(typeString, cleanType, isOptional, isNullable)
    ELSE IF MatchGeneric(cleanType) # <<>>
    THEN GenericBranch(typeString, cleanType, isOptional, isNullable)
    ELSE IF /\ StartsWith(cleanType, <<"[">>) /\ EndsWith(cleanType, <<"]">>)
            /\ Trim(Slice(cleanType, 2, Len(cleanType) - 1)) # <<>>
    THEN TupleBranch(typeString, cleanType, isOptional, isNullable)
    ELSE IF Includes(cleanType, <<"|">>)
    THEN UnionBranch(typeString, cleanType, isOptional, isNullable)
    ELSE IF Includes(cleanType, <<"&">>)
    THEN IntersectionBranch(typeString, cleanType, isOptional, isNullable)
    ELSE DefaultBranch(typeString, cleanType, isOptional, isNullable)

\* One call of parseType, its recursive calls left as the children to parse.
ParseTypeNode(typeString) ==
    IF typeString = <<>> \/ ~config.captureComplexTypes THEN EarlyReturn(typeString)
    ELSE SelectBranch(typeString, CleanType(typeString),
                      IsOptionalText(typeString), IsNullableText(typeString))

RECURSIVE parseType(_), TypeInfoOf(_)

\* the TypeInfo of a call, the recursive calls on its children made
TypeInfoOf(node) ==
    LET parts == [i \in 1..Len(node.children) |-> parseType(node.children[i])]
    IN  [baseType |-> node.baseType,
         composite |-> node.composite,
         typeArguments |-> IF node.composite = "typeArguments" THEN parts ELSE <<>>,
         unionTypes |-> IF node.composite = "unionTypes" THEN parts ELSE <<>>,
         intersectionTypes |-> IF node.composite = "intersectionTypes" THEN parts ELSE <<>>,
         isOptional |-> node.isOptional,
         isNullable |-> node.isNullable,
         rawType |-> node.rawType]

\* parseType: the whole TypeInfo
parseType(typeString) == TypeInfoOf(ParseTypeNode(typeString))

---------------------------------------------------------------------------
(* The normalizer as a process: one step per call of parseType, the        *)
(* recursive calls made depth first in the order the source makes them.    *)

MaxTypeTokens == 3

TypeTokens ==
    { <<"s">>, S_Promise, S_Array, <<"M","<">>, <<">">>, <<"[","]">>, <<"[">>, <<"]">>,
      <<",">>, <<"|">>, <<"&">>, <<"?">>, <<" ">>, S_Null, <<"|"," ","n","u","l","l">>,
      S_Undefined }

\* the texts made of at most n tokens
RECURSIVE TokenTexts(_)
TokenTexts(n) ==
    IF n = 0 THEN {<<>>}
    ELSE LET shorter == TokenTexts(n - 1)
         IN  shorter \cup {t \o tok : t \in shorter, tok \in TypeTokens}

\* type texts as they are written in comments and printed by the compiler
W_s == <<"s">>
W_M == <<"M">>

\* Name<Arg1,...,Argn>, sep between the arguments
RECURSIVE JoinArgs(_, _)
JoinArgs(args, sep) ==
    IF Len(args) = 1 THEN args[1]
    ELSE args[1] \o sep \o JoinArgs(Tail(args), sep)

GenericText(name, args, sep) == name \o <<"<">> \o JoinArgs(args, sep) \o <<">">>

\* the element types of an array: a scalar, generics, a Promise, a tuple
ElementTexts ==
    { W_s,
      GenericText(W_M, <<W_s>>, <<",">>),
      GenericText(W_M, <<W_s, W_s>>, <<",">>),
      GenericText(<<"P","r","o","m","i","s","e">>, <<W_s>>, <<",">>),
      <<"[","s","]">>,
      <<"[","s",",","s","]">> }

ArraySuffixText(element) == element \o <<"[","]">>

ArrayGenericText(element) == S_Array \o element \o <<">">>

\* generic types, each with its name and its arguments
Generic(name, args, sep) ==
    [text |-> GenericText(name, args, sep), name |-> name, args |-> args]

Generics ==
    { Generic(W_M, <<W_s>>, <<",">>),
      Generic(W_M, <<W_s, W_s>>, <<",">>),
      Generic(W_M, <<W_s, W_s>>, <<","," ">>),
      Generic(W_M, <<GenericText(W_M, <<W_s>>, <<",">>)>>, <<",">>),
      Generic(W_M, <<GenericText(W_M, <<W_s, W_s>>, <<",">>), W_s>>, <<",">>),
      Generic(W_M, <<W_s, GenericText(W_M, <<W_s, W_s>>, <<","," ">>)>>, <<","," ">>),
      Generic(W_M, <<W_s, ArrayGenericText(W_s)>>, <<","," ">>),
      Generic(W_M, <<GenericText(<<"P","r","o","m","i","s","e">>, <<W_s>>, <<",">>)>>,
              <<",">>) }

\* unions with a null or undefined member, written with and without spaces
\* around the bar
MarkedTexts ==
    { W_s \o bar \o word \o rest :
        bar \in {<<"|">>, <<" ","|"," ">>},
        word \in {<<"n","u","l","l">>, <<"u","n","d","e","f","i","n","e","d">>},
        rest \in {<<>>, <<"|">> \o W_M, <<" ","|"," ">> \o W_M} }

TypeStrings ==
    TokenTexts(MaxTypeTokens)
    \cup {ArraySuffixText(e) : e \in ElementTexts}
    \cup {ArrayGenericText(e) : e \in ElementTexts}
    \cup {g.text : g \in Generics}
    \cup MarkedTexts

\* the command-line process's variables while the parser alone is studied
CliIdle ==
    /\ argv = <<>>
    /\ pc = "none"
    /\ frame = <<>>
    /\ stdout = <<>>
    /\ stderr = <<>>
    /\ exitCode = <<>>
    /\ calls = <<>>

\* the release script's variables while the library alone is studied
PublishIdle ==
    /\ publishOptions = <<>>
    /\ disk = <<>>
    /\ git = <<>>
    /\ executed = <<>>
    /\ publish = <<>>

\* the walker's variables while the normalizer alone is studied
WalkerIdle ==
    /\ fileContent = <<>>
    /\ filePath = <<>>
    /\ project = <<>>
    /\ results = <<>>

InitType ==
    /\ config \in {[DEFAULT_AST_CONFIG EXCEPT !.captureComplexTypes = b] : b \in BOOLEAN}
    /\ typeText \in TypeStrings
    /\ pending = <<typeText>>
    /\ lastCall = <<>>
    /\ WalkerIdle
    /\ CliIdle
    /\ PublishIdle

\* parseType(Head(pending)) up to its recursive calls, which become pending
ParseTypeCall ==
    /\ pending # <<>>
    /\ LET node == ParseTypeNode(Head(pending))
       IN  /\ lastCall' = <<Head(pending), node>>
           /\ pending' = node.children \o Tail(pending)
    /\ UNCHANGED <<publishVars, config, typeText, fileContent, filePath, project, results, cliVars>>

NextType == ParseTypeCall

SpecType == InitType /\ [][NextType]_vars

\* C1: every call of parseType, the recursive ones included, returns a
\* descriptor whose rawType is exactly the text it was called on.
C1_RawTypeIsInput ==
    lastCall # <<>> => lastCall[2].rawType = lastCall[1]

\* a recursive call whose text was cleaned before matching: baseType differs
\* from the argument, rawType does not
C1_Witness ==
    /\ lastCall # <<>>
    /\ lastCall[1] # typeText
    /\ lastCall[2].baseType # lastCall[1]
    /\ lastCall[2].rawType = lastCall[1]

---------------------------------------------------------------------------
(* The syntax tree.                                                        *)
(*                                                                         *)
(* A source file is [statements |-> <<statement, ...>>].  A statement is   *)
(*   [kind |-> "function", name, exported, isAsync, jsDocs, parameters]    *)
(*   [kind |-> "variable", exported, jsDocs, declarations], a declaration  *)
(*       being [kind |-> "variableDeclaration", name, initializer], the    *)
(*       initializer <<>> when absent and else <<its text>>                *)
(*   [kind |-> "class", name, exported, members], a member being           *)
(*       [kind |-> "constructor" | "method" | "property" | "getAccessor"   *)
(*        | "setAccessor", name, isStatic, isAsync, modifiers, jsDocs,     *)
(*        parameters, initializer]                                         *)
(*   [kind |-> "namespace", name, exported, body |-> <<statement, ...>>]   *)
(* exported says that the declaration itself carries the export keyword.   *)
(* A declared parameter is [name, type], both texts.  A documentation      *)
(* block is given by what the comment parser makes of it:                  *)
(*   [throws |-> BOOLEAN, parsed |-> <<[description, tags], ...>>]         *)
(* a tag being [tag, name, type, description].  Function bodies hold no    *)
(* declarations.                                                           *)

\* arr.filter(keep)
Filter(xs, keep(_)) == SelectSeq(xs, keep)

\* const name = value; ... : the value is computed once, where the
\* statement stands, and Body reads the constant
Const(value, Body(_)) == CHOOSE r \in {Body(v) : v \in {value}} : TRUE

\* `${prefix}.${name}` on qualified names held as their segments
Dot(prefix, name) == Append(prefix, name)

\* methods[name] = info on a JavaScript object: a new key is added last, an
\* existing key keeps its place and takes the new value
Assign(methods, info) ==
    IF \E i \in 1..Len(methods) : methods[i].name = info.name
    THEN [i \in 1..Len(methods) |->
             IF methods[i].name = info.name THEN info ELSE methods[i]]
    ELSE Append(methods, info)

SetMethod(methods, info) ==
    Const(methods, LAMBDA m : Const(info, LAMBDA e : Assign(m, e)))

---------------------------------------------------------------------------
(* The documentation-comment extractor: parseJSDoc, extractParams,         *)
(* extractReturns.                                                         *)

EmptyJSDoc == [description |-> <<>>, tags |-> <<>>]

\* the kinds of node that have getJsDocs(); a variable declaration has none
\* (the comment belongs to its statement)
HasGetJsDocs(node) ==
    node.kind \in {"function", "class", "constructor", "method", "property",
                   "getAccessor", "setAccessor", "variable", "namespace"}

\* type.match(/\{([^}]+)\}/): the text between the leftmost "{" that is
\* followed by at least one character other than "}" and the "}" closing it;
\* the type itself when there is no such match
ExtractBracedType(type) ==
    LET closeAfter(i) == {j \in (i + 1)..Len(type) : type[j] = "}"}
        firstClose(i) == CHOOSE j \in closeAfter(i) : \A k \in closeAfter(i) : j <= k
        opens == {i \in 1..Len(type) :
                     /\ type[i] = "{"
                     /\ closeAfter(i) # {}
                     /\ firstClose(i) >= i + 2}
    IN  IF opens = {} THEN type
        ELSE LET i == CHOOSE x \in opens : \A y \in opens : x <= y
             IN  Slice(type, i + 1, firstClose(i) - 1)

ProcessTag(tag) ==
    IF tag.tag = "param" /\ tag.type # <<>>
    THEN [tag |-> tag.tag, name |-> tag.name, type |-> ExtractBracedType(tag.type),
          description |-> tag.description]
    ELSE IF tag.tag = "returns" /\ tag.type # <<>>
    THEN [tag |-> tag.tag, name |-> <<>>, type |-> ExtractBracedType(tag.type),
          description |-> tag.description]
    ELSE [tag |-> tag.tag, name |-> tag.name, type |-> tag.type,
          description |-> tag.description]

\* a variant of parseJSDoc that reads the block nearest to the declaration
parseJSDocNearest(node) ==
    LET jsDocs == IF HasGetJsDocs(node) THEN node.jsDocs ELSE <<>>
        parsed == jsDocs[Len(jsDocs)].parsed
    IN  IF jsDocs = <<>> \/ jsDocs[Len(jsDocs)].throws \/ parsed = <<>> THEN EmptyJSDoc
        ELSE IF \E i \in 1..Len(parsed[1].tags) : parsed[1].tags[i].tag = "module"
        THEN EmptyJSDoc
        ELSE [description |-> parsed[1].description,
              tags |-> Map(parsed[1].tags, ProcessTag)]

parseJSDoc(node) ==
    LET jsDocs == IF HasGetJsDocs(node) THEN node.jsDocs ELSE <<>>
    IN  IF jsDocs = <<>> THEN EmptyJSDoc
        ELSE IF jsDocs[1].throws THEN EmptyJSDoc
        ELSE LET parsed == jsDocs[1].parsed
             IN  IF parsed = <<>> THEN EmptyJSDoc
                 ELSE IF \E i \in 1..Len(parsed[1].tags) : parsed[1].tags[i].tag = "module"
                 THEN EmptyJSDoc
                 ELSE [description |-> parsed[1].description,
                       tags |-> Map(parsed[1].tags, ProcessTag)]

S_OptionalMark == <<"(","o","p","t","i","o","n","a","l",")">>

\* a variant of IsOptionalParam that also honours a "?" closing the type
IsOptionalParamByType(tag) ==
    \/ StartsWith(tag.name, <<"_">>)
    \/ Includes(tag.description, S_OptionalMark)
    \/ EndsWith(tag.type, <<"?">>)

\* tag.name.startsWith('_') || tag.description.includes('(optional)')
IsOptionalParam(tag) ==
    StartsWith(tag.name, <<"_">>) \/ Includes(tag.description, S_OptionalMark)

\* tag.name.replace(/^_/, '')
StripUnderscore(name) ==
    IF StartsWith(name, <<"_">>) THEN Tail(name) ELSE name

ParamOfTag(tag) ==
    [name |-> StripUnderscore(tag.name),
     type |-> parseType(tag.type),
     description |-> tag.description,
     optional |-> IsOptionalParam(tag)]

extractParams(jsDoc) ==
    Map(Filter(jsDoc.tags, LAMBDA tag : tag.tag = "param"), ParamOfTag)

\* null is <<>>, a ReturnInfo r is <<r>>
extractReturns(jsDoc) ==
    LET found == Filter(jsDoc.tags, LAMBDA tag : tag.tag = "returns")
    IN  IF found = <<>> \/ found[1].type = <<>> THEN <<>>
        ELSE <<[type |-> parseType(found[1].type),
                description |-> found[1].description]>>

createMethodInfo(name, description, params, returns, methodKind, isAsync, visibility) ==
    [name |-> name, description |-> description, params |-> params,
     returns |-> returns, methodKind |-> methodKind, isAsync |-> isAsync,
     visibility |-> visibility]

---------------------------------------------------------------------------
(* The member classifier.                                                  *)

S_Arrow == <<"=", ">">>
S_Function == <<"f","u","n","c","t","i","o","n">>
S_Async == <<"a","s","y","n","c">>
S_AsyncFunction == S_Async \o <<" ">> \o S_Function
S_Value == <<"v","a","l","u","e">>

\* let visibility = 'public'; if private ...; if protected ...
VisibilityOf(node) ==
    IF "protected" \in node.modifiers THEN "protected"
    ELSE IF "private" \in node.modifiers THEN "private"
    ELSE "public"

\* a variant of processFunctionDeclaration that reads the declared signature
\* when the function has no documentation comment
processFunctionDeclarationSignature(declaration, methods, namePrefix) ==
    LET name == IF namePrefix # <<>> THEN namePrefix ELSE <<declaration.name>>
        jsDoc == parseJSDoc(declaration)
        declared == [j \in 1..Len(declaration.parameters) |->
                        [name |-> declaration.parameters[j].name,
                         type |-> parseType(declaration.parameters[j].type),
                         description |-> <<>>,
                         optional |-> FALSE]]
    IN  SetMethod(methods,
            createMethodInfo(name, jsDoc.description,
                             IF jsDoc = EmptyJSDoc THEN declared
                             ELSE extractParams(jsDoc),
                             extractReturns(jsDoc), "function", declaration.isAsync,
                             "public"))

\* namePrefix is <<>> when the caller gives none
processFunctionDeclaration(declaration, methods, namePrefix) ==
    LET name == IF namePrefix # <<>> THEN namePrefix ELSE <<declaration.name>>
        jsDoc == parseJSDoc(declaration)
    IN  SetMethod(methods,
            createMethodInfo(name, jsDoc.description, extractParams(jsDoc),
                             extractReturns(jsDoc), "function", declaration.isAsync,
                             "public"))

processVariableDeclaration(declaration, methods, namePrefix) ==
    LET name == IF namePrefix # <<>> THEN namePrefix ELSE <<declaration.name>>
    IN  IF declaration.initializer = <<>> THEN methods
        ELSE LET text == declaration.initializer[1]
                 jsDoc == parseJSDoc(declaration)
             IN  IF /\ ~Includes(text, S_Arrow)
                    /\ ~StartsWith(text, S_Function)
                    /\ ~StartsWith(text, S_AsyncFunction)
                 THEN methods
                 ELSE SetMethod(methods,
                          createMethodInfo(name, jsDoc.description, extractParams(jsDoc),
                                           extractReturns(jsDoc), "function",
                                           StartsWith(text, S_Async), "public"))

processMethod(method, className, methods, methodKind, visibility) ==
    LET fullName == Dot(className, method.name)
        jsDoc == parseJSDoc(method)
    IN  SetMethod(methods,
            createMethodInfo(fullName, jsDoc.description, extractParams(jsDoc),
                             extractReturns(jsDoc), methodKind, method.isAsync,
                             visibility))

processPropertyMethod(property, className, methods) ==
    LET fullName == Dot(className, property.name)
        jsDoc == parseJSDoc(property)
        isAsync == property.initializer # <<>>
                       /\ StartsWith(property.initializer[1], S_Async)
    IN  SetMethod(methods,
            createMethodInfo(fullName, jsDoc.description, extractParams(jsDoc),
                             extractReturns(jsDoc), "property", isAsync,
                             VisibilityOf(property)))

\* a variant of SetterParams that takes the params from the documentation
\* comment, as the other kinds do
SetterParamsFromDoc(accessor, jsDoc) == extractParams(jsDoc)

\* the params of a setter: its first declared parameter
SetterParams(accessor, jsDoc) ==
    IF accessor.parameters = <<>> THEN <<>>
    ELSE LET param == accessor.parameters[1]
             paramName == IF param.name # <<>> THEN param.name ELSE S_Value
             named == Filter(jsDoc.tags,
                             LAMBDA t : t.tag = "param" /\ t.name = paramName)
             paramDescription == IF named = <<>> THEN <<>> ELSE named[1].description
         IN  <<[name |-> paramName,
                type |-> parseType(param.type),
                description |-> paramDescription,
                optional |-> FALSE]>>

processAccessor(accessor, className, methods, methodKind) ==
    LET fullName == Dot(className, accessor.name)
        jsDoc == parseJSDoc(accessor)
        params == IF methodKind = "setter" THEN SetterParams(accessor, jsDoc) ELSE <<>>
        returns == IF methodKind = "getter" THEN extractReturns(jsDoc) ELSE <<>>
    IN  SetMethod(methods,
            createMethodInfo(fullName, jsDoc.description, params, returns,
                             methodKind, FALSE, VisibilityOf(accessor)))

\* declaration.getConstructors() and the like: the members of a kind, in
\* declaration order
MembersOfKind(declaration, kind) ==
    Filter(declaration.members, LAMBDA m : m.kind = kind)

\* the constructor entry: no returns, never async, visibility left to
\* createMethodInfo's default
processConstructor(constructor, className, methods) ==
    LET jsDoc == parseJSDoc(constructor)
    IN  SetMethod(methods,
            createMethodInfo(Dot(className, "constructor"), jsDoc.description,
                             extractParams(jsDoc), <<>>, "constructor", FALSE,
                             "public"))

\* the turns of the loops of processClassDeclaration, in the order they are
\* taken: the first constructor, getMethods() (the instance methods loop),
\* getStaticMethods(), getProperties(), getGetAccessors(), getSetAccessors();
\* a loop that the configuration switches off has no turns
Turns(pass, members) == [j \in 1..Len(members) |-> [pass |-> pass, member |-> members[j]]]

ClassTurns(declaration) ==
    LET constructors == MembersOfKind(declaration, "constructor")
        all == MembersOfKind(declaration, "method")
    IN  (IF constructors = <<>> THEN <<>>
         ELSE Turns("constructor", <<constructors[1]>>))
        \o (IF config.captureInstanceMethods THEN Turns("instance", all) ELSE <<>>)
        \o (IF config.captureStaticMethods
            THEN Turns("static", Filter(all, LAMBDA m : m.isStatic)) ELSE <<>>)
        \o (IF config.capturePropertyMethods
            THEN Turns("property", MembersOfKind(declaration, "property")) ELSE <<>>)
        \o (IF config.captureGetAccessors
            THEN Turns("getter", MembersOfKind(declaration, "getAccessor")) ELSE <<>>)
        \o (IF config.captureSetAccessors
            THEN Turns("setter", MembersOfKind(declaration, "setAccessor")) ELSE <<>>)

\* one turn of a loop of processClassDeclaration
MemberStep(turn, className, methods) ==
    LET member == turn.member
    IN  IF turn.pass = "constructor"
        THEN processConstructor(member, className, methods)
        ELSE IF turn.pass = "instance" /\ member.isStatic
        THEN methods
        ELSE IF turn.pass \in {"instance", "static"}
        THEN processMethod(member, className, methods, turn.pass, VisibilityOf(member))
        ELSE IF turn.pass = "property"
        THEN IF member.initializer = <<>> THEN methods
             ELSE IF \/ Includes(member.initializer[1], S_Arrow)
                     \/ Includes(member.initializer[1], S_Function)
             THEN processPropertyMethod(member, className, methods)
             ELSE methods
        ELSE processAccessor(member, className, methods, turn.pass)

RECURSIVE ForEachMember(_, _, _)
ForEachMember(turns, className, methods) ==
    IF turns = <<>> THEN methods
    ELSE Const(MemberStep(Head(turns), className, methods),
               LAMBDA after : ForEachMember(Tail(turns), className, after))

processClassDeclaration(declaration, className, methods) ==
    ForEachMember(ClassTurns(declaration), className, methods)

---------------------------------------------------------------------------
(* The module walker.                                                      *)

\* node.getDescendantsOfKind(kind) for the statements below a node: every
\* statement of the kind at any depth, in document order
RECURSIVE DescendantsOfKind(_, _)
DescendantsOfKind(statements, kind) ==
    IF statements = <<>> THEN <<>>
    ELSE LET first == Head(statements)
         IN  (IF first.kind = kind THEN <<first>> ELSE <<>>)
             \o (IF first.kind = "namespace"
                 THEN DescendantsOfKind(first.body, kind) ELSE <<>>)
             \o DescendantsOfKind(Tail(statements), kind)

\* node.getFirstDescendantByKind(SyntaxKind.ExportKeyword) !== undefined: the
\* search covers the node's own modifiers and everything below the node
RECURSIVE HasExportKeywordBelow(_)
HasExportKeywordBelow(node) ==
    \/ node.exported
    \/ /\ node.kind = "namespace"
       /\ \E i \in 1..Len(node.body) : HasExportKeywordBelow(node.body[i])

\* node.getFirstDescendantByKind(SyntaxKind.Identifier)?.getText() || '',
\* for a declaration whose first identifier is its name
NameIdentifier(node) == node.name

\* for (const declaration of declarations) processVariableDeclaration(...);
\* namespaceName is <<>> at the top level
RECURSIVE ForEachDeclaration(_, _, _)
ForEachDeclaration(declarations, namespaceName, methods) ==
    IF declarations = <<>> THEN methods
    ELSE LET declaration == Head(declarations)
             namePrefix == IF namespaceName = <<>> THEN <<>>
                           ELSE Dot(namespaceName, NameIdentifier(declaration))
         IN  Const(processVariableDeclaration(declaration, methods, namePrefix),
                   LAMBDA after :
                       ForEachDeclaration(Tail(declarations), namespaceName, after))

RECURSIVE processNamespaceDeclaration(_, _, _), ForEachNode(_, _, _)

\* one turn of a loop of processNamespaceDeclaration
NodeStep(node, namespaceName, methods) ==
    IF ~HasExportKeywordBelow(node) THEN methods
    ELSE IF node.kind = "function"
    THEN processFunctionDeclaration(node, methods,
             Dot(namespaceName, NameIdentifier(node)))
    ELSE IF node.kind = "class"
    THEN processClassDeclaration(node, Dot(namespaceName, NameIdentifier(node)), methods)
    ELSE IF node.kind = "variable"
    THEN ForEachDeclaration(node.declarations, namespaceName, methods)
    ELSE processNamespaceDeclaration(node, Dot(namespaceName, NameIdentifier(node)),
                                     methods)

ForEachNode(nodes, namespaceName, methods) ==
    IF nodes = <<>> THEN methods
    ELSE Const(NodeStep(Head(nodes), namespaceName, methods),
               LAMBDA after : ForEachNode(Tail(nodes), namespaceName, after))

\* the four loops of processNamespaceDeclaration, one after the other: the
\* function declarations below the body, the class declarations, the variable
\* statements, the namespaces
processNamespaceDeclaration(namespace, namespaceName, methods) ==
    LET body == namespace.body
    IN  ForEachNode(DescendantsOfKind(body, "function")
                        \o DescendantsOfKind(body, "class")
                        \o DescendantsOfKind(body, "variable")
                        \o DescendantsOfKind(body, "namespace"),
                    namespaceName, methods)

\* one turn of a loop of parseSourceFile
TopStep(statement, methods) ==
    IF statement.kind = "function"
    THEN IF statement.exported THEN processFunctionDeclaration(statement, methods, <<>>)
         ELSE methods
    ELSE IF statement.kind = "class"
    THEN IF statement.exported
         THEN processClassDeclaration(statement, <<statement.name>>, methods)
         ELSE methods
    ELSE IF statement.kind = "variable"
    THEN IF statement.exported
         THEN ForEachDeclaration(statement.declarations, <<>>, methods)
         ELSE methods
    ELSE IF HasExportKeywordBelow(statement)
         THEN processNamespaceDeclaration(statement, <<NameIdentifier(statement)>>, methods)
         ELSE methods

RECURSIVE ForEachTop(_, _)
ForEachTop(statements, methods) ==
    IF statements = <<>> THEN methods
    ELSE Const(TopStep(Head(statements), methods),
               LAMBDA after : ForEachTop(Tail(statements), after))

\* sourceFile.getFunctions() and the like: the top-level statements of a kind
TopLevel(sourceFile, kind) ==
    Filter(sourceFile.statements, LAMBDA st : st.kind = kind)

\* a variant of WalkMethods that visits the top-level statements in the order
\* the file declares them
WalkMethodsFileOrder(sourceFile) ==
    ForEachTop(Filter(sourceFile.statements, LAMBDA st : st.kind # "namespace")
                   \o DescendantsOfKind(sourceFile.statements, "namespace"),
               <<>>)

\* parseSourceFile, the method map: the four loops one after the other, over
\* the functions, the classes, the variable declarations, and every
\* namespace of the file
WalkMethods(sourceFile) ==
    ForEachTop(TopLevel(sourceFile, "function")
                   \o TopLevel(sourceFile, "class")
                   \o TopLevel(sourceFile, "variable")
                   \o DescendantsOfKind(sourceFile.statements, "namespace"),
               <<>>)

---------------------------------------------------------------------------
(* Module information: extractModuleInfo, extractImports, extractExports.  *)

S_TempTs == <<"t","e","m","p",".","t","s">>

\* project.createSourceFile(path, text): the tree of text, held under path
createSourceFile(path, text) == [path |-> path] @@ text

\* sourceFile.getBaseName(): the text after the last "/" of the file's path
getBaseName(path) == Slice(path, LastIndexOf(path, <<"/">>) + 1, Len(path))

Extensions == {<<".","t","s">>, <<".","j","s">>, <<".","t","s","x">>, <<".","j","s","x">>}

\* fileName.replace(/\.(ts|js|tsx|jsx)$/, ''): at most one of the four is a
\* suffix of fileName
StripExtension(fileName) ==
    LET hits == {e \in Extensions : EndsWith(fileName, e)}
    IN  IF hits = {} THEN fileName
        ELSE Slice(fileName, 1, Len(fileName) - Len(CHOOSE e \in hits : TRUE))

\* sourceFile.getChildrenOfKind(SyntaxKind.JSDocComment): the children of a
\* source file are its statement list and its end-of-file token; a
\* documentation comment is a child of the statement it is attached to, so
\* none is found, whatever the file starts with (sourceFile.leadingDoc)
JSDocChildren(sourceFile) == <<>>

\* one turn of the loop of extractModuleInfo over the comments found
ModuleDocStep(jsDoc, info) ==
    IF jsDoc.throws \/ jsDoc.parsed = <<>> THEN info
    ELSE LET parsedComment == jsDoc.parsed[1]
             moduleTags == Filter(parsedComment.tags, LAMBDA tag : tag.tag = "module")
         IN  [name |-> IF moduleTags # <<>> /\ moduleTags[1].name # <<>>
                       THEN moduleTags[1].name ELSE info.name,
              description |-> parsedComment.description]

RECURSIVE ForEachModuleDoc(_, _)
ForEachModuleDoc(jsDocs, info) ==
    IF jsDocs = <<>> THEN info
    ELSE ForEachModuleDoc(Tail(jsDocs), ModuleDocStep(Head(jsDocs), info))

extractImports(sourceFile) ==
    [j \in 1..Len(sourceFile.importDeclarations) |->
        LET importDecl == sourceFile.importDeclarations[j]
        IN  [moduleName |-> importDecl.moduleSpecifier,
             isDefault |-> importDecl.defaultImport # <<>>,
             isNamespace |-> importDecl.namespaceImport # <<>>,
             namedImports |-> importDecl.namedImports]]

\* a variant of NamedExportRecord that never marks a record as a re-export
NamedExportRecordLocal(name, moduleSpecifier) ==
    [name |-> name, isDefault |-> FALSE, isReexport |-> FALSE,
     sourceModule |-> moduleSpecifier]

\* the record pushed for one name of an export statement; moduleSpecifier is
\* <<>> (undefined) or <<"mod">>, and sourceModule likewise
NamedExportRecord(name, moduleSpecifier) ==
    [name |-> name, isDefault |-> FALSE, isReexport |-> moduleSpecifier # <<>>,
     sourceModule |-> moduleSpecifier]

\* the records of one export statement: one per name, or, when it names
\* nothing, one named 'default' if a default keyword is found in it
ExportDeclarationRecords(exportDecl) ==
    IF exportDecl.namedExports # <<>>
    THEN [j \in 1..Len(exportDecl.namedExports) |->
             NamedExportRecord(exportDecl.namedExports[j], exportDecl.moduleSpecifier)]
    ELSE IF exportDecl.defaultKeyword
         THEN <<[name |-> "default", isDefault |-> TRUE,
                 isReexport |-> exportDecl.moduleSpecifier # <<>>,
                 sourceModule |-> exportDecl.moduleSpecifier]>>
         ELSE <<>>

\* export = X or export default X
ExportAssignmentRecord(exportAssign) ==
    [name |-> exportAssign.expressionText, isDefault |-> ~exportAssign.isExportEquals,
     isReexport |-> FALSE, sourceModule |-> <<>>]

RECURSIVE Flatten(_)
Flatten(lists) == IF lists = <<>> THEN <<>> ELSE Head(lists) \o Flatten(Tail(lists))

\* the names a top-level statement declares
DeclaredNames(statement) ==
    IF statement.kind = "variable"
    THEN [j \in 1..Len(statement.declarations) |-> statement.declarations[j].name]
    ELSE <<statement.name>>

\* sourceFile.getExportedDeclarations() of the ts-morph release the
\* repository pins (npm:ts-morph@1): an array with one declaration per
\* export of the module that resolves to a declaration of the file, here
\* given by the exported name each declaration is reached through.  A name
\* re-exported from another module resolves to nothing in the file.
getExportedDeclarations(sourceFile) ==
    LET declared == Flatten([j \in 1..Len(sourceFile.statements) |->
                                DeclaredNames(sourceFile.statements[j])])
        keyword == Flatten([j \in 1..Len(sourceFile.statements) |->
                               IF sourceFile.statements[j].exported
                               THEN DeclaredNames(sourceFile.statements[j]) ELSE <<>>])
        listed == Flatten([j \in 1..Len(sourceFile.exportDeclarations) |->
                              IF sourceFile.exportDeclarations[j].moduleSpecifier = <<>>
                              THEN sourceFile.exportDeclarations[j].namedExports
                              ELSE <<>>])
        assigned == Flatten([j \in 1..Len(sourceFile.exportAssignments) |->
                                <<sourceFile.exportAssignments[j].expressionText>>])
        Resolves(name) == \E j \in 1..Len(declared) : declared[j] = name
    IN  keyword \o Filter(listed, Resolves) \o Filter(assigned, Resolves)

\* String(key) for the key forEach hands to its callback: on an array, the
\* index of the element, counted from 0
IndexKey(j) == ToString(j - 1)

\* the third loop of extractExports
ExportedDeclarationRecords(sourceFile) ==
    [j \in 1..Len(getExportedDeclarations(sourceFile)) |->
        [name |-> IndexKey(j), isDefault |-> IndexKey(j) = "default",
         isReexport |-> FALSE, sourceModule |-> <<>>]]

extractExports(sourceFile) ==
    Flatten([j \in 1..Len(sourceFile.exportDeclarations) |->
                ExportDeclarationRecords(sourceFile.exportDeclarations[j])])
    \o [j \in 1..Len(sourceFile.exportAssignments) |->
           ExportAssignmentRecord(sourceFile.exportAssignments[j])]
    \o ExportedDeclarationRecords(sourceFile)

extractModuleInfo(sourceFile) ==
    LET fileName == getBaseName(sourceFile.path)
        found == ForEachModuleDoc(JSDocChildren(sourceFile),
                                  [name |-> StripExtension(fileName), description |-> <<>>])
    IN  [name |-> found.name, description |-> found.description, fileName |-> fileName,
         imports |-> extractImports(sourceFile), exports |-> extractExports(sourceFile)]

parseSourceFile(sourceFile) ==
    [methods |-> WalkMethods(sourceFile), module |-> extractModuleInfo(sourceFile)]

---------------------------------------------------------------------------
(* The source files studied.                                               *)

T_number == <<"n","u","m","b","e","r">>
T_string == <<"s","t","r","i","n","g">>
T_any == <<"a","n","y">>

Tag(tag, name, type, description, optional) ==
    [tag |-> tag, name |-> name, type |-> type, description |-> description,
     optional |-> optional]

\* a documentation block the comment parser reads as one comment
Block(description, tags) ==
    [throws |-> FALSE, parsed |-> <<[description |-> description, tags |-> tags]>>]

Param(name, type) == [name |-> name, type |-> type]

TagParamX == Tag("param", <<"x">>, T_number, <<"t","h","e"," ","x">>, FALSE)
TagReturns == Tag("returns", <<>>, T_number, <<"s","u","m">>, FALSE)

\* a description, one @param and one @returns
DocFull == <<Block(<<"A","d","d","s">>, <<TagParamX, TagReturns>>)>>
DocReturns == <<Block(<<"S","i","z","e">>, <<TagReturns>>)>>
DocValue ==
    <<Block(<<"S","e","t","s">>,
            <<Tag("param", S_Value, T_number, <<"n","e","w">>, FALSE)>>)>>

Function(name, exported, isAsync, jsDocs, parameters) ==
    [kind |-> "function", name |-> name, exported |-> exported, isAsync |-> isAsync,
     jsDocs |-> jsDocs, parameters |-> parameters]

VariableDeclaration(name, initializer) ==
    [kind |-> "variableDeclaration", name |-> name, initializer |-> initializer]

VariableStatement(exported, jsDocs, declarations) ==
    [kind |-> "variable", exported |-> exported, jsDocs |-> jsDocs,
     declarations |-> declarations]

Member(kind, name, isStatic, isAsync, modifiers, jsDocs, parameters, initializer) ==
    [kind |-> kind, name |-> name, isStatic |-> isStatic, isAsync |-> isAsync,
     modifiers |-> modifiers, jsDocs |-> jsDocs, parameters |-> parameters,
     initializer |-> initializer]

Class(name, exported, members) ==
    [kind |-> "class", name |-> name, exported |-> exported, members |-> members]

Namespace(name, exported, body) ==
    [kind |-> "namespace", name |-> name, exported |-> exported, body |-> body]

I_Arrow == <<"(","x",")"," ","=",">"," ","x">>
I_AsyncArrow == S_Async \o <<" ">> \o I_Arrow
I_FunctionExpr == S_Function \o <<"(",")","{","}">>
I_Number == <<"1">>

PX == <<Param(<<"x">>, T_number)>>
PAB == <<Param(<<"a">>, T_string), Param(<<"b">>, T_number)>>

FnExportedF == Function("f", TRUE, TRUE, DocFull, PX)
FnHiddenG == Function("g", FALSE, FALSE, DocFull, PX)
FnExportedG == Function("g", TRUE, FALSE, <<>>, PAB)

ClassAccessors ==
    Class("C", TRUE,
          <<Member("getAccessor", "x", FALSE, FALSE, {}, DocReturns, <<>>, <<>>),
            Member("setAccessor", "x", FALSE, FALSE, {}, <<>>, PX, <<>>)>>)

ClassWithConstructor ==
    Class("C", TRUE,
          <<Member("constructor", "constructor", FALSE, FALSE, {}, DocFull, PX, <<>>)>>)

TopPool ==
    { FnExportedF, FnHiddenG, FnExportedG,
      VariableStatement(TRUE, DocFull, <<VariableDeclaration("f", <<I_Arrow>>)>>),
      VariableStatement(TRUE, <<>>, <<VariableDeclaration("g", <<I_Number>>),
                                      VariableDeclaration("h", <<I_FunctionExpr>>)>>),
      VariableStatement(FALSE, <<>>, <<VariableDeclaration("g", <<I_AsyncArrow>>)>>),
      ClassAccessors,
      Namespace("A", TRUE, <<FnExportedF, FnHiddenG>>),
      Namespace("A", FALSE, <<FnExportedF>>),
      Namespace("C", TRUE,
                <<VariableStatement(TRUE, <<>>, <<VariableDeclaration("x", <<I_Arrow>>)>>),
                  Namespace("B", TRUE, <<FnExportedG, ClassWithConstructor>>)>>) }

MemberPool ==
    { Member("constructor", "constructor", FALSE, FALSE, {}, DocFull, PX, <<>>),
      Member("constructor", "constructor", FALSE, FALSE, {"private"}, <<>>, PAB, <<>>),
      Member("method", "m", FALSE, TRUE, {"public"}, DocFull, PX, <<>>),
      Member("method", "m", FALSE, FALSE, {"private"}, <<>>, PAB, <<>>),
      Member("method", "m", TRUE, FALSE, {"protected"}, DocFull, PX, <<>>),
      Member("property", "m", FALSE, FALSE, {"private"}, DocFull, <<>>, <<I_AsyncArrow>>),
      Member("property", "x", FALSE, FALSE, {}, <<>>, <<>>, <<I_Number>>),
      Member("getAccessor", "x", FALSE, FALSE, {}, DocReturns, <<>>, <<>>),
      Member("getAccessor", "x", FALSE, FALSE, {"protected"}, <<>>, <<>>, <<>>),
      Member("setAccessor", "x", FALSE, FALSE, {}, <<>>, PX, <<>>),
      Member("setAccessor", "x", FALSE, FALSE, {"private"}, DocValue,
             <<Param(<<>>, T_any)>>, <<>>),
      Member("setAccessor", "x", FALSE, FALSE, {}, DocFull, <<>>, <<>>),
      Member("setAccessor", "m", FALSE, FALSE, {}, DocFull, PAB, <<>>) }

TagPool ==
    { TagParamX,
      Tag("param", <<"_","x">>, T_number, <<"s","k","i","p">>, FALSE),
      Tag("param", <<"y">>, T_number, S_OptionalMark \o <<" ","y">>, FALSE),
      Tag("param", <<"y">>, T_number, <<"o","p","t","i","o","n","a","l">>, FALSE),
      Tag("param", <<"z">>, T_number \o <<"?">>, <<>>, FALSE),
      Tag("param", <<"z">>, T_string \o S_Undefined, <<>>, TRUE),
      Tag("param", <<"x">>, <<"{">> \o T_number \o <<"}">>, <<>>, FALSE),
      TagReturns,
      Tag("returns", <<>>, <<>>, <<"s","u","m">>, FALSE) }

MaxDecls == 2
MaxMembers == 2
MaxTags == 2
MaxNsDepth == 3
MaxParses == 2

\* the sequences of at most n elements of pool
RECURSIVE SeqsUpTo(_, _)
SeqsUpTo(pool, n) ==
    IF n = 0 THEN {<<>>}
    ELSE LET shorter == SeqsUpTo(pool, n - 1)
         IN  shorter \cup {Append(q, e) : q \in shorter, e \in pool}

\* export namespace A { export namespace B { ... export function f ... } },
\* d namespaces deep
RECURSIVE NamespaceChain(_)
NamespaceChain(d) ==
    IF d = 0 THEN FnExportedF
    ELSE Namespace(IF d % 2 = 1 THEN "A" ELSE "B", TRUE, <<NamespaceChain(d - 1)>>)

\* a file: its top-level statements, the documentation comment it starts
\* with (<<>> when it starts with none), and its import declarations,
\* export statements and export assignments
ModuleFile(statements, leadingDoc, importDeclarations, exportDeclarations, exportAssignments) ==
    [statements |-> statements, leadingDoc |-> leadingDoc,
     importDeclarations |-> importDeclarations,
     exportDeclarations |-> exportDeclarations,
     exportAssignments |-> exportAssignments]

SourceFile(statements) == ModuleFile(statements, <<>>, <<>>, <<>>, <<>>)

TopFiles == {SourceFile(q) : q \in SeqsUpTo(TopPool, MaxDecls)}

ClassFiles == {SourceFile(<<Class("C", TRUE, q)>>) : q \in SeqsUpTo(MemberPool, MaxMembers)}

DocFiles ==
    {SourceFile(<<Function("f", TRUE, FALSE, <<Block(<<"D">>, q)>>, PX)>>) :
        q \in SeqsUpTo(TagPool, MaxTags)}

NamespaceFiles == {SourceFile(<<NamespaceChain(d)>>) : d \in 1..MaxNsDepth}

Files == TopFiles \cup ClassFiles \cup DocFiles \cup NamespaceFiles

\* function f() {} without the export keyword
FnLocalF == Function("f", FALSE, FALSE, <<>>, PX)

\* /** Simple. @module Simple */ at the top of the file
LeadingModuleDoc ==
    Block(<<"S","i","m","p","l","e">>,
          <<Tag("module", <<"S","i","m","p","l","e">>, <<>>, <<>>, FALSE)>>)

ImportDeclaration(moduleSpecifier, defaultImport, namespaceImport, namedImports) ==
    [moduleSpecifier |-> moduleSpecifier, defaultImport |-> defaultImport,
     namespaceImport |-> namespaceImport, namedImports |-> namedImports]

ExportDeclaration(namedExports, moduleSpecifier, defaultKeyword) ==
    [namedExports |-> namedExports, moduleSpecifier |-> moduleSpecifier,
     defaultKeyword |-> defaultKeyword]

ExportAssignment(isExportEquals, expressionText) ==
    [isExportEquals |-> isExportEquals, expressionText |-> expressionText]

\* export { f }, export { assert, g } from 'mod', export * from 'mod'
ExportPool ==
    { ExportDeclaration(<<"f">>, <<>>, FALSE),
      ExportDeclaration(<<"assert", "g">>, <<"mod">>, FALSE),
      ExportDeclaration(<<>>, <<"mod">>, FALSE) }

MaxExports == 2

ModuleFiles ==
    {ModuleFile(statements, leadingDoc, importDeclarations, exportDeclarations,
                exportAssignments) :
        statements \in {<<>>, <<FnExportedF>>, <<FnLocalF>>},
        leadingDoc \in {<<>>, <<LeadingModuleDoc>>},
        importDeclarations \in {<<>>, <<ImportDeclaration("mod", <<"d">>, <<>>, <<"g">>)>>},
        exportDeclarations \in SeqsUpTo(ExportPool, MaxExports),
        exportAssignments \in {<<>>, <<ExportAssignment(FALSE, "f")>>}}

\* a comment the comment parser throws on
ThrowingBlock == [throws |-> TRUE, parsed |-> <<>>]

DocBlockPool == {LeadingModuleDoc, DocFull[1], DocReturns[1], ThrowingBlock}

\* declarations with two documentation blocks attached: the block the file
\* starts with and the declaration's own
MultiDocFiles ==
    {SourceFile(<<Function("f", TRUE, FALSE, <<leading, own>>, PX)>>) :
        leading \in DocBlockPool, own \in DocBlockPool}
    \cup {SourceFile(<<Class("C", TRUE,
                           <<Member("method", "m", FALSE, FALSE, {}, <<leading, own>>,
                                    PX, <<>>)>>)>>) :
             leading \in DocBlockPool, own \in DocBlockPool}

P_Calc == <<"s","r","c","/","c","a","l","c",".","t","s">>
P_Util == <<"m","a","t","h",".","u","t","i","l",".","j","s","x">>
P_Missing == <<"n","o","/","m","o","d","u","l","e",".","t","s">>

\* the paths at which a file can be read
ReadablePaths == {P_Calc, P_Util}

---------------------------------------------------------------------------
(* ModuleToCLI instances and their get() calls.                            *)

Instances == {"first", "second"}

\* the normalizer's variables while the walker is studied
NormalizerIdle ==
    /\ typeText = <<>>
    /\ pending = <<>>
    /\ lastCall = <<>>

\* new ModuleToCLI(path) twice on the same file: each instance has its own,
\* empty, Project
Init ==
    /\ config = DEFAULT_AST_CONFIG
    /\ NormalizerIdle
    /\ \/ fileContent \in Files \cup MultiDocFiles /\ filePath = P_Calc
       \/ fileContent \in ModuleFiles /\ filePath \in ReadablePaths
       \/ fileContent = <<>> /\ filePath = P_Missing
    /\ project = [i \in Instances |-> {}]
    /\ results = [i \in Instances |-> <<>>]
    /\ CliIdle
    /\ PublishIdle

\* project.createSourceFile('temp.ts', fileContent) without the overwrite
\* option: it throws when the project already holds a file of that path
CreateSourceFileThrows(held) == "temp.ts" \in held

\* Deno.readTextFile(absolutePath): the content of the file, <<>> for the
\* exception thrown when no file can be read there
ReadTextFile(path) == IF path \in ReadablePaths THEN fileContent ELSE <<>>

\* the outcome of get() on an instance constructed with path whose project
\* holds the files held: parse() reads the file, creates temp.ts in the
\* project and walks it; an exception rejects the promise
GetOutcome(path, held) ==
    IF ReadTextFile(path) = <<>> \/ CreateSourceFileThrows(held)
    THEN [status |-> "rejected", value |-> <<>>]
    ELSE [status |-> "fulfilled",
          value |-> <<parseSourceFile(createSourceFile(S_TempTs, ReadTextFile(path)))>>]

\* get() on instance i
Get(i) ==
    /\ Len(results[i]) < MaxParses
    /\ results' = [results EXCEPT ![i] = Append(@, GetOutcome(filePath, project[i]))]
    /\ project' = [project EXCEPT ![i] =
                      IF ReadTextFile(filePath) = <<>> THEN @ ELSE @ \cup {"temp.ts"}]
    /\ UNCHANGED <<publishVars, config, typeText, pending, lastCall, fileContent, filePath, cliVars>>

Next == \E i \in Instances : Get(i)

Spec == Init /\ [][Next]_vars

---------------------------------------------------------------------------
(* What the get() calls have recorded.                                     *)

\* the method maps of the fulfilled get() calls
Recorded ==
    UNION {{results[i][k].value[1].methods :
               k \in {n \in 1..Len(results[i]) : results[i][n].status = "fulfilled"}} :
           i \in Instances}

Entries(methods) == {methods[j] : j \in 1..Len(methods)}

KeysOf(methods) == {methods[j].name : j \in 1..Len(methods)}

Entry(methods, key) == CHOOSE e \in Entries(methods) : e.name = key

Position(methods, key) == CHOOSE j \in 1..Len(methods) : methods[j].name = key

Statements == IF fileContent = <<>> THEN <<>> ELSE fileContent.statements

NoNamespaces == \A a \in 1..Len(Statements) : Statements[a].kind # "namespace"

\* the statements with every declaration and namespace that carries no export
\* keyword of its own deleted, at every depth
RECURSIVE Prune(_)
Prune(statements) ==
    IF statements = <<>> THEN <<>>
    ELSE LET first == Head(statements)
         IN  (IF ~first.exported THEN <<>>
              ELSE IF first.kind = "namespace"
              THEN <<Namespace(first.name, TRUE, Prune(first.body))>>
              ELSE <<first>>)
             \o Prune(Tail(statements))

AllExported == Prune(Statements) = Statements

\* the members of a class that the classifier looks at: every member but the
\* constructors after the first
VisitedMembers(class) ==
    {b \in 1..Len(class.members) :
        class.members[b].kind = "constructor" =>
            \A c \in 1..(b - 1) : class.members[c].kind # "constructor"}

MethodKindOf(member) ==
    CASE member.kind = "constructor" -> "constructor"
      [] member.kind = "method" -> IF member.isStatic THEN "static" ELSE "instance"
      [] member.kind = "property" -> "property"
      [] member.kind = "getAccessor" -> "getter"
      [] member.kind = "setAccessor" -> "setter"

\* the exported top-level declarations of the file, each with the key and the
\* kind it is recorded under, whether it has a documentation comment, and its
\* modifiers
Declared ==
    LET exported(kind) ==
            {a \in 1..Len(Statements) :
                Statements[a].kind = kind /\ Statements[a].exported}
    IN  {[name |-> <<Statements[a].name>>, methodKind |-> "function",
          documented |-> Statements[a].jsDocs # <<>>, modifiers |-> {}] :
            a \in exported("function")}
        \cup UNION {
           {[name |-> <<Statements[a].declarations[b].name>>,
             methodKind |-> "function",
             documented |-> Statements[a].jsDocs # <<>>, modifiers |-> {}] :
               b \in 1..Len(Statements[a].declarations)} :
           a \in exported("variable")}
        \cup UNION {
           {[name |-> <<Statements[a].name, Statements[a].members[b].name>>,
             methodKind |-> MethodKindOf(Statements[a].members[b]),
             documented |-> Statements[a].members[b].jsDocs # <<>>,
             modifiers |-> Statements[a].members[b].modifiers] :
               b \in VisitedMembers(Statements[a])} :
           a \in exported("class")}

\* the declarations an entry of the map can come from
DeclaredFor(e) ==
    {d \in Declared : d.name = e.name /\ d.methodKind = e.methodKind}

---------------------------------------------------------------------------
(* C2                                                                      *)

\* C2: every get() on the unchanged file, on a fresh instance or on an
\* instance that has parsed before, completes like every other and yields a
\* deep-equal result.
C2_ParseTwiceSame ==
    \A i, j \in Instances :
        \A k \in 1..Len(results[i]), l \in 1..Len(results[j]) :
            results[i][k] = results[j][l]

---------------------------------------------------------------------------
(* C3                                                                      *)

\* the smallest producers of entries: an exported function, one declaration
\* of an exported variable statement, one visited member of an exported class
Units ==
    {[a |-> a, b |-> 0] :
        a \in {x \in 1..Len(Statements) :
                  Statements[x].kind = "function" /\ Statements[x].exported}}
    \cup UNION {
       {[a |-> a, b |-> b] : b \in 1..Len(Statements[a].declarations)} :
       a \in {x \in 1..Len(Statements) :
                 Statements[x].kind = "variable" /\ Statements[x].exported}}
    \cup UNION {
       {[a |-> a, b |-> b] : b \in VisitedMembers(Statements[a])} :
       a \in {x \in 1..Len(Statements) :
                 Statements[x].kind = "class" /\ Statements[x].exported}}

\* what the walker records for a unit in a file of its own: no entry or one
UnitMethods(u) ==
    LET st == Statements[u.a]
    IN  WalkMethods(SourceFile(
            IF st.kind = "function" THEN <<st>>
            ELSE IF st.kind = "variable"
            THEN <<VariableStatement(TRUE, st.jsDocs, <<st.declarations[u.b]>>)>>
            ELSE <<Class(st.name, TRUE, <<st.members[u.b]>>)>>))

Phase(u) ==
    CASE Statements[u.a].kind = "function" -> 1
      [] Statements[u.a].kind = "class" -> 2
      [] Statements[u.a].kind = "variable" -> 3

MemberPhase(u) ==
    IF Statements[u.a].kind # "class" THEN 0
    ELSE LET kind == MethodKindOf(Statements[u.a].members[u.b])
         IN  CASE kind = "constructor" -> 1
               [] kind = "instance" -> 2
               [] kind = "static" -> 3
               [] kind = "property" -> 4
               [] kind = "getter" -> 5
               [] kind = "setter" -> 6

\* u comes before v inside one statement: the class's passes, then the order
\* of declaration
WithinStatement(u, v) ==
    \/ MemberPhase(u) < MemberPhase(v)
    \/ MemberPhase(u) = MemberPhase(v) /\ u.b < v.b

\* the statement of u is declared before the statement of v, or they are in
\* the same statement and u comes first there
DeclarationOrder(u, v) ==
    \/ u.a < v.a
    \/ u.a = v.a /\ WithinStatement(u, v)

\* functions, then classes, then variables, each group in declaration order
PassOrder(u, v) ==
    \/ Phase(u) < Phase(v)
    \/ Phase(u) = Phase(v) /\ DeclarationOrder(u, v)

\* the map lists its keys in the order Before of the first unit producing
\* each, and keeps for each key the entry of the last unit producing it
VisitedInOrder(methods, Before(_, _)) ==
    LET producers(key) ==
            {u \in Units : UnitMethods(u) # <<>> /\ UnitMethods(u)[1].name = key}
        first(key) ==
            CHOOSE u \in producers(key) :
                \A v \in producers(key) \ {u} : Before(u, v)
        last(key) ==
            CHOOSE u \in producers(key) :
                \A v \in producers(key) \ {u} : Before(v, u)
    IN  \A key \in KeysOf(methods) :
            /\ producers(key) # {}
            /\ Entry(methods, key) = UnitMethods(last(key))[1]
            /\ \A other \in KeysOf(methods) \ {key} :
                   Before(first(key), first(other)) <=>
                       Position(methods, key) < Position(methods, other)

\* C3 as stated: the entries of the exported top-level functions, classes and
\* variables appear in the order the file declares them, and of two
\* declarations with the same qualified name the one later in the file is kept.
C3_FileOrderLastWins ==
    NoNamespaces => \A methods \in Recorded : VisitedInOrder(methods, DeclarationOrder)

\* C3 amended: the walker visits the exported functions first, then the
\* exported classes, then the exported variables, each group in declaration
\* order (inside a class: constructor, instance methods, static methods,
\* function-valued properties, getters, setters); a key keeps the place of its
\* first visit and the descriptor of its last visit.
C3_PassOrderLastVisitWins ==
    NoNamespaces => \A methods \in Recorded : VisitedInOrder(methods, PassOrder)

\* a function-valued variable declared before a function, both recorded, the
\* function first
C3_Witness ==
    \E methods \in Recorded :
        /\ Len(Statements) = 2
        /\ Statements[1].kind = "variable" /\ Statements[1].exported
        /\ Statements[2].kind = "function" /\ Statements[2].exported
        /\ LET variable == <<Statements[1].declarations[1].name>>
               function == <<Statements[2].name>>
           IN  /\ {variable, function} \subseteq KeysOf(methods)
               /\ variable # function
               /\ Position(methods, function) < Position(methods, variable)

---------------------------------------------------------------------------
(* C4                                                                      *)

\* C4: nothing declared without an export keyword, and nothing inside a
\* namespace declared without one, has a key in the map: deleting all such
\* declarations and namespaces from the file leaves the map as it is.
C4_HiddenNotRecorded ==
    \A methods \in Recorded : methods = WalkMethods(SourceFile(Prune(Statements)))

---------------------------------------------------------------------------
(* C5                                                                      *)

\* the entries of the declarations directly inside a namespace body, under
\* the namespace's dotted path
DirectMethods(body, path) ==
    ForEachNode(Filter(body, LAMBDA st : st.kind # "namespace"), path, <<>>)

\* the keys of the members of the namespaces among statements, each under the
\* full dotted path of the namespaces around it
RECURSIVE FullPathKeys(_, _)
FullPathKeys(statements, path) ==
    UNION {KeysOf(DirectMethods(statements[a].body, Append(path, statements[a].name)))
           \cup FullPathKeys(statements[a].body, Append(path, statements[a].name)) :
           a \in {x \in 1..Len(statements) : statements[x].kind = "namespace"}}

\* C5: in a file whose namespaces and declarations are all exported, a
\* namespace member is recorded under its full dotted path and under no other
\* key.
C5_OneFullPathKey ==
    AllExported =>
        \A methods \in Recorded :
            KeysOf(methods) =
                KeysOf(WalkMethods(SourceFile(
                    Filter(Statements, LAMBDA st : st.kind # "namespace"))))
                \cup FullPathKeys(Statements, <<>>)

---------------------------------------------------------------------------
(* C6                                                                      *)

\* some declaration among statements, at any depth, has a documentation
\* comment
RECURSIVE AnyDocumented(_)
AnyDocumented(statements) ==
    \E a \in 1..Len(statements) :
        LET st == statements[a]
        IN  CASE st.kind = "namespace" -> AnyDocumented(st.body)
              [] st.kind = "class" ->
                     \E b \in 1..Len(st.members) : st.members[b].jsDocs # <<>>
              [] OTHER -> st.jsDocs # <<>>

\* the entry comes from top-level declarations none of which has a
\* documentation comment
Undocumented(e) ==
    /\ NoNamespaces
    /\ DeclaredFor(e) # {}
    /\ \A d \in DeclaredFor(e) : ~d.documented

---------------------------------------------------------------------------
(* C7                                                                      *)

\* C7: the visibility of the entry of a class member is private or protected
\* when a declaration it comes from carries that modifier, and public when it
\* carries neither.
C7_VisibilityFollowsModifier ==
    NoNamespaces =>
        \A methods \in Recorded : \A e \in Entries(methods) :
            (e.methodKind # "function" /\ DeclaredFor(e) # {}) =>
                \E d \in DeclaredFor(e) :
                    e.visibility =
                        IF "private" \in d.modifiers THEN "private"
                        ELSE IF "protected" \in d.modifiers THEN "protected"
                        ELSE "public"

---------------------------------------------------------------------------
(* C8                                                                      *)

\* the set accessors that a file of one exported class declares under a name
SettersNamed(name) ==
    Filter(Statements[1].members,
           LAMBDA m : m.kind = "setAccessor" /\ m.name = name)

OneClass ==
    /\ Len(Statements) = 1
    /\ Statements[1].kind = "class"
    /\ Statements[1].exported

\* C8: every set accessor of an exported class has an entry of kind setter
\* with null returns; its params are empty when the accessor (the last one
\* declared under the name) has no parameter, and otherwise exactly one:
\* the first declared parameter, named "value" when it has no name, with the
\* declared type, not optional.
C8_SetterTakesFirstParameter ==
    OneClass =>
        \A methods \in Recorded :
            /\ \A b \in 1..Len(Statements[1].members) :
                   Statements[1].members[b].kind = "setAccessor" =>
                       /\ <<Statements[1].name, Statements[1].members[b].name>>
                              \in KeysOf(methods)
                       /\ Entry(methods, <<Statements[1].name,
                                           Statements[1].members[b].name>>).methodKind
                              = "setter"
            /\ \A e \in Entries(methods) :
                   e.methodKind = "setter" =>
                       LET declared == SettersNamed(e.name[2])
                           setter == declared[Len(declared)]
                       IN  /\ e.returns = <<>>
                           /\ IF setter.parameters = <<>> THEN e.params = <<>>
                              ELSE /\ Len(e.params) = 1
                                   /\ e.params[1].name =
                                          IF setter.parameters[1].name = <<>>
                                          THEN <<"v","a","l","u","e">>
                                          ELSE setter.parameters[1].name
                                   /\ e.params[1].type.rawType
                                          = setter.parameters[1].type
                                   /\ e.params[1].optional = FALSE

\* a setter declared with two parameters and documented with another one is
\* recorded with its first declared parameter only; another setter, whose
\* parameter has no name, is recorded with "value"
C8_Witness ==
    /\ OneClass
    /\ \E methods \in Recorded : \E e \in Entries(methods) :
           /\ e.methodKind = "setter"
           /\ Len(e.params) = 1
           /\ LET declared == SettersNamed(e.name[2])
              IN  \/ /\ Len(declared[Len(declared)].parameters) = 2
                     /\ declared[Len(declared)].jsDocs # <<>>
                     /\ e.params[1].name = declared[Len(declared)].parameters[1].name
                  \/ /\ declared[Len(declared)].parameters[1].name = <<>>
                     /\ e.params[1].name = <<"v","a","l","u","e">>

---------------------------------------------------------------------------
(* C9                                                                      *)

\* the dotted paths of the classes among statements, at any depth, that
\* declare a constructor
RECURSIVE ClassesWithConstructor(_, _)
ClassesWithConstructor(statements, path) ==
    {Append(path, statements[a].name) :
        a \in {x \in 1..Len(statements) :
                  /\ statements[x].kind = "class"
                  /\ \E b \in 1..Len(statements[x].members) :
                         statements[x].members[b].kind = "constructor"}}
    \cup UNION {ClassesWithConstructor(statements[a].body,
                                       Append(path, statements[a].name)) :
                a \in {x \in 1..Len(statements) : statements[x].kind = "namespace"}}

\* C9: in a file whose namespaces and declarations are all exported, the
\* entries of kind constructor are exactly one per class that declares a
\* constructor, keyed <class path>.constructor, not async, with null returns.
C9_OneConstructorEntry ==
    AllExported =>
        \A methods \in Recorded :
            LET constructors == {e \in Entries(methods) : e.methodKind = "constructor"}
            IN  /\ {e.name : e \in constructors} =
                       {Append(class, "constructor") :
                           class \in ClassesWithConstructor(Statements, <<>>)}
                /\ \A e \in constructors : ~e.isAsync /\ e.returns = <<>>

---------------------------------------------------------------------------
(* C10                                                                     *)

\* the @param tags of the one documented function of the file
ParamTags ==
    Filter(Statements[1].jsDocs[1].parsed[1].tags, LAMBDA t : t.tag = "param")

OneDocumentedFunction ==
    /\ Len(Statements) = 1
    /\ Statements[1].kind = "function"
    /\ Statements[1].exported
    /\ Statements[1].jsDocs # <<>>
    /\ Statements[1].jsDocs[1].parsed # <<>>

\* C10: the params of a documented function are its @param tags in order,
\* and each is optional exactly when the tag's name starts with "_" or the
\* tag's description contains "(optional)".
C10_OptionalByNameOrDescription ==
    OneDocumentedFunction =>
        \A methods \in Recorded :
            LET params == Entry(methods, <<Statements[1].name>>).params
            IN  /\ Len(params) = Len(ParamTags)
                /\ \A j \in 1..Len(ParamTags) :
                       LET name == ParamTags[j].name
                           description == ParamTags[j].description
                       IN  params[j].optional <=>
                               \/ name # <<>> /\ name[1] = "_"
                               \/ \E n \in 1..Len(description) :
                                      /\ n + 9 <= Len(description)
                                      /\ SubSeq(description, n, n + 9)
                                             = <<"(","o","p","t","i","o","n","a","l",")">>

\* a function documented with an underscore-named parameter, recorded
\* optional, and with a parameter whose type ends in "?" or whose description
\* says optional without the parentheses, recorded not optional
C10_Witness ==
    /\ OneDocumentedFunction
    /\ Len(ParamTags) = 2
    /\ ParamTags[1].name[1] = "_"
    /\ \/ ParamTags[2].type[Len(ParamTags[2].type)] = "?"
       \/ ParamTags[2].description = <<"o","p","t","i","o","n","a","l">>
    /\ \E methods \in Recorded :
           LET params == Entry(methods, <<Statements[1].name>>).params
           IN  /\ Len(params) = 2
               /\ params[1].optional
               /\ ~params[2].optional

---------------------------------------------------------------------------
(* C11                                                                     *)

\* the tags of the comment of the one documented function of the file
DocumentedTags == Statements[1].jsDocs[1].parsed[1].tags

\* C11: the returns of a documented function is null exactly when its
\* comment has no returns tag, whether or not the tag carries a type.
C11_ReturnsNullIffNoTag ==
    OneDocumentedFunction =>
        \A methods \in Recorded :
            Entry(methods, <<Statements[1].name>>).returns = <<>>
                <=> \A j \in 1..Len(DocumentedTags) : DocumentedTags[j].tag # "returns"

---------------------------------------------------------------------------
(* C12, C13, C14: the normalizer on array, generic and marked texts.       *)

\* the call of parseType just made was on text, with complex types captured
Normalized(text) ==
    /\ config.captureComplexTypes
    /\ lastCall # <<>>
    /\ lastCall[1] = text

\* C12: T[] and Array<T> both give baseType Array with the one type argument
\* T, for every element type T: scalar, generic, Promise or tuple.
C12_ArraySpellingsAgree ==
    \A element \in ElementTexts :
        (Normalized(ArraySuffixText(element)) \/ Normalized(ArrayGenericText(element))) =>
            /\ lastCall[2].baseType = <<"A","r","r","a","y">>
            /\ lastCall[2].composite = "typeArguments"
            /\ lastCall[2].children = <<element>>

\* C13: Name<Arg1,...,Argn> gives baseType Name and the n type arguments
\* Arg1..Argn, whatever generics the arguments hold.
C13_GenericArgumentsKept ==
    \A g \in Generics :
        Normalized(g.text) =>
            /\ lastCall[2].baseType = g.name
            /\ lastCall[2].composite = "typeArguments"
            /\ lastCall[2].children = g.args

\* the members of a union text, trimmed
UnionMembers(text) == Map(Split(text, "|"), Trim)

HasMember(text, word) ==
    \E j \in 2..Len(UnionMembers(text)) : UnionMembers(text)[j] = word

\* C14: a union with a null member is nullable, one with an undefined member
\* is optional, with or without spaces around the bar, and neither word is
\* the baseType or among the union members of the result.
C14_MarkersFoundAndStripped ==
    \A text \in MarkedTexts :
        Normalized(text) =>
            /\ HasMember(text, <<"n","u","l","l">>) => lastCall[2].isNullable
            /\ HasMember(text, <<"u","n","d","e","f","i","n","e","d">>)
                   => lastCall[2].isOptional
            /\ lastCall[2].baseType
                   \notin {<<"n","u","l","l">>, <<"u","n","d","e","f","i","n","e","d">>}
            /\ \A j \in 1..Len(lastCall[2].children) :
                   Trim(lastCall[2].children[j])
                       \notin {<<"n","u","l","l">>,
                               <<"u","n","d","e","f","i","n","e","d">>}

---------------------------------------------------------------------------
(* Module information recorded by the get() calls.                         *)

\* the module records of the fulfilled get() calls
RecordedModules ==
    UNION {{results[i][k].value[1].module :
               k \in {n \in 1..Len(results[i]) : results[i][n].status = "fulfilled"}} :
           i \in Instances}

\* the names of the module-level name tags of the file's leading comment
ModuleTagNames ==
    IF fileContent = <<>> \/ fileContent.leadingDoc = <<>> THEN <<>>
    ELSE LET tags == fileContent.leadingDoc[1].parsed[1].tags
         IN  [j \in 1..Len(Filter(tags, LAMBDA tag : tag.tag = "module")) |->
                 Filter(tags, LAMBDA tag : tag.tag = "module")[j].name]

\* C15: the module record of a file parsed from path P has fileName = the
\* base name of P and name = the name of the module-level tag of the file
\* when it has one, else the base name of P without its extension.
C15_NameFromPath ==
    \A module \in RecordedModules :
        /\ module.fileName = getBaseName(filePath)
        /\ module.name = IF ModuleTagNames # <<>> THEN ModuleTagNames[1]
                         ELSE StripExtension(getBaseName(filePath))

ExportStatements == IF fileContent = <<>> THEN <<>> ELSE fileContent.exportDeclarations

\* C16: for every name X of a named export statement the export list holds
\* a record named X with isDefault false, whose isReexport tells whether
\* the statement has a module specifier and whose sourceModule is that
\* specifier (none when the statement has none).
C16_NamedExportRecords ==
    \A module \in RecordedModules :
        \A j \in 1..Len(ExportStatements) :
            \A k \in 1..Len(ExportStatements[j].namedExports) :
                \E r \in 1..Len(module.exports) :
                    module.exports[r] =
                        [name |-> ExportStatements[j].namedExports[k],
                         isDefault |-> FALSE,
                         isReexport |-> ExportStatements[j].moduleSpecifier # <<>>,
                         sourceModule |-> ExportStatements[j].moduleSpecifier]

\* a file with a re-exporting and a local named export statement was parsed
C16_Witness ==
    /\ RecordedModules # {}
    /\ \E j, k \in 1..Len(ExportStatements) :
           /\ ExportStatements[j].namedExports # <<>>
           /\ ExportStatements[j].moduleSpecifier # <<>>
           /\ ExportStatements[k].namedExports # <<>>
           /\ ExportStatements[k].moduleSpecifier = <<>>

\* the names listed by the file's export statements, one entry per mention
ListedNames ==
    Flatten([j \in 1..Len(ExportStatements) |-> ExportStatements[j].namedExports])

\* the names the file exports: those of its export statements, those of its
\* declarations with the export keyword, and "default" for an export default
ExportedNames ==
    IF fileContent = <<>> THEN {}
    ELSE {ListedNames[j] : j \in 1..Len(ListedNames)}
         \cup UNION {{DeclaredNames(Statements[a])[b] :
                        b \in 1..Len(DeclaredNames(Statements[a]))} :
                     a \in {x \in 1..Len(Statements) : Statements[x].exported}}
         \cup {"default" : j \in {x \in 1..Len(fileContent.exportAssignments) :
                                     ~fileContent.exportAssignments[x].isExportEquals}}

\* C17: when no name is listed twice by the file's export statements, the
\* export list holds exactly one record per exported name, and every
\* record is named by a name the file exports.
C17_OneRecordPerExportedName ==
    (\A j, k \in 1..Len(ListedNames) : ListedNames[j] = ListedNames[k] => j = k) =>
        \A module \in RecordedModules :
            /\ \A name \in ExportedNames :
                   Cardinality({r \in 1..Len(module.exports) :
                                   module.exports[r].name = name}) = 1
            /\ \A r \in 1..Len(module.exports) : module.exports[r].name \in ExportedNames

---------------------------------------------------------------------------
(* The command-line tool: main() of main.ts and of spec.ts.                *)

S_Generate == <<"g","e","n","e","r","a","t","e">>
S_Help == <<"h","e","l","p">>
S_Json == <<"j","s","o","n">>
S_Simple == <<"s","i","m","p","l","e">>
S_Constructor == <<"c","o","n","s","t","r","u","c","t","o","r">>
S_True == <<"t","r","u","e">>
S_False == <<"f","a","l","s","e">>
S_NullWord == <<"n","u","l","l">>
S_UndefinedWord == <<"u","n","d","e","f","i","n","e","d">>
T_boolean == <<"b","o","o","l","e","a","n">>
T_object == <<"o","b","j","e","c","t">>
T_array == <<"a","r","r","a","y">>

\* JavaScript values
JsUndefined == [t |-> "undefined"]
JsNull == [t |-> "null"]
JsNaN == [t |-> "NaN"]
JsNumber(n) == [t |-> "number", number |-> n]
JsString(chars) == [t |-> "string", chars |-> chars]
JsBoolean(b) == [t |-> "boolean", bool |-> b]
JsArray(items) == [t |-> "array", items |-> items]
JsObject == [t |-> "object"]

DigitValue(c) == CHOOSE n \in 0..9 : ToString(n) = c

RECURSIVE DecimalValue(_)
DecimalValue(chars) ==
    IF chars = <<>> THEN 0
    ELSE 10 * DecimalValue(SubSeq(chars, 1, Len(chars) - 1)) + DigitValue(chars[Len(chars)])

AllDigits(chars) == \A j \in 1..Len(chars) : chars[j] \in Digits

\* Number(value), for a value made of digits, letters and commas
ToNumber(value) == IF AllDigits(value) THEN JsNumber(DecimalValue(value)) ELSE JsNaN

\* JSON.parse(value), for a value made of digits, letters and commas: <<>>
\* when it throws
JsonParse(value) ==
    IF value # <<>> /\ AllDigits(value) /\ (Len(value) = 1 \/ value[1] # "0")
    THEN <<JsNumber(DecimalValue(value))>>
    ELSE IF value = S_True THEN <<JsBoolean(TRUE)>>
    ELSE IF value = S_False THEN <<JsBoolean(FALSE)>>
    ELSE IF value = S_NullWord THEN <<JsNull>>
    ELSE <<>>

\* a variant of convertValue that passes the text on as it was typed
convertValueAsText(value, type) == JsString(value)

\* convertValue: the value typed on the command line, by the parameter's
\* TypeInfo
convertValue(value, type) ==
    IF type.isNullable /\ (value = S_NullWord \/ value = S_UndefinedWord) THEN JsNull
    ELSE IF type.baseType = T_number THEN ToNumber(value)
    ELSE IF type.baseType = T_boolean THEN JsBoolean(value = S_True)
    ELSE IF type.baseType = T_object
         THEN IF JsonParse(value) # <<>> THEN JsonParse(value)[1] ELSE JsString(value)
    ELSE IF type.baseType = T_array
         THEN IF JsonParse(value) # <<>> THEN JsonParse(value)[1]
              ELSE JsArray(Map(Split(value, ","), LAMBDA item : JsString(Trim(item))))
    ELSE JsString(value)

\* String(v) of a flag value
StringOf(v) ==
    IF v.t = "string" THEN v.chars
    ELSE IF v.t = "boolean" THEN (IF v.bool THEN S_True ELSE S_False)
    ELSE <<"[","o","b","j","e","c","t"," ","O","b","j","e","c","t","]">>

IsFlag(arg) == StartsWith(arg, <<"-">>)

\* the name of a flag: the text after its dashes and before its "="
FlagName(arg) ==
    LET text == IF StartsWith(arg, <<"-","-">>) THEN Slice(arg, 3, Len(arg))
                ELSE Slice(arg, 2, Len(arg))
    IN  Split(text, "=")[1]

\* the value parseArgs stores for a flag: the text after the first "=" (a
\* text of digits is stored as a number and reads back as the same text
\* unless it starts with 0), true for a flag without "="; under a dotted
\* name the value is nested in an object stored under the first segment
FlagValue(arg) ==
    IF Includes(FlagName(arg), <<".">>) THEN JsObject
    ELSE IF Includes(arg, <<"=">>)
         THEN JsString(Slice(arg, IndexOf(arg, <<"=">>) + 1, Len(arg)))
         ELSE JsBoolean(TRUE)

\* the keys a flag is stored under: its name up to the first dot, and the
\* name it is an alias of
FlagKeys(arg, alias) ==
    LET key == Split(FlagName(arg), ".")[1]
    IN  {key} \cup {alias[j][2] : j \in {a \in 1..Len(alias) : alias[a][1] = key}}

\* parseArgs(args, {boolean, alias}) for arguments of the forms --name,
\* --name=value, -n, -n=value and positional ones (no "--name value" pair):
\* the positional arguments in order, and the flags in order
parseArgs(args, alias) ==
    [positional |-> Filter(args, LAMBDA arg : ~IsFlag(arg)),
     named |-> Map(Filter(args, IsFlag),
                   LAMBDA arg : [keys |-> FlagKeys(arg, alias), value |-> FlagValue(arg)])]

\* key in flags
HasKey(flags, key) == \E j \in 1..Len(flags.named) : key \in flags.named[j].keys

\* flags[key]: the value stored last under key, undefined when there is none
ValueOf(flags, key) ==
    LET hits == {j \in 1..Len(flags.named) : key \in flags.named[j].keys}
    IN  IF hits = {} THEN JsUndefined
        ELSE flags.named[CHOOSE j \in hits : \A k \in hits : j >= k].value

\* the loop of main over Deno.args that collects the constructor arguments:
\* the pairs <<key, value>> in order
CollectConstructorArgs(rawArgs) ==
    Map(Filter(rawArgs, LAMBDA arg :
                   StartsWith(arg, <<"-","-">> \o S_Constructor \o <<".">>)
                       /\ Len(Split(Slice(arg, 3, Len(arg)), "=")) >= 2),
        LAMBDA arg : <<Split(Slice(arg, 3, Len(arg)), "=")[1],
                       Slice(arg, IndexOf(arg, <<"=">>) + 1, Len(arg))>>)

\* constructor.<param> as the key of a constructor argument
ConstructorKey(paramName) == S_Constructor \o <<".">> \o paramName

\* the constructorValues of executeInstanceMethod: one per parameter of the
\* constructor's descriptor, in order; none when there is no descriptor
ConstructorValues(constructorArgs, constructorInfo) ==
    IF constructorInfo = <<>> THEN <<>>
    ELSE Map(constructorInfo[1].params,
             LAMBDA param :
                 LET hits == {j \in 1..Len(constructorArgs) :
                                 constructorArgs[j][1] = ConstructorKey(param.name)}
                 IN  IF hits = {} THEN JsUndefined
                     ELSE convertValue(
                              constructorArgs[CHOOSE j \in hits : \A k \in hits : j >= k][2],
                              param.type))

\* getMethodArgs
getMethodArgs(args, methodInfo) ==
    Map(methodInfo.params,
        LAMBDA param :
            IF ValueOf(args, param.name) # JsUndefined
            THEN convertValue(StringOf(ValueOf(args, param.name)), param.type)
            ELSE JsUndefined)

\* getMissingParams
getMissingParams(methodInfo, flags) ==
    Map(Filter(methodInfo.params,
               LAMBDA param : /\ ~param.optional
                              /\ ~HasKey(flags, param.name)
                              /\ ~HasKey(flags, Slice(param.name, 1, 1))),
        LAMBDA param : param.name)

\* the text of an identifier of the files studied: their identifiers are
\* single letters, but for "constructor"
IdentifierText(id) == IF id = "constructor" THEN S_Constructor ELSE <<id>>

\* the key of spec.methods an entry is stored under: its segments joined by
\* dots
RECURSIVE KeyText(_)
KeyText(name) ==
    IF Len(name) = 1 THEN IdentifierText(name[1])
    ELSE IdentifierText(name[1]) \o <<".">> \o KeyText(Tail(name))

S_ToString == <<"t","o","S","t","r","i","n","g">>

\* names every object literal inherits from Object.prototype
ObjectPrototypeKeys == {S_ToString, S_Constructor}

\* what reading an inherited name gives: a function, whose visibility is
\* undefined
ObjectPrototypeMember == [inherited |-> TRUE, visibility |-> "undefined"]

\* spec.methods[key] on the object literal parseSourceFile fills: the
\* descriptor stored under key, else what the object inherits under that
\* name, else <<>> for undefined
MethodAt(methods, key) ==
    LET hits == Filter(methods, LAMBDA e : KeyText(e.name) = key)
    IN  IF hits # <<>> THEN <<hits[1]>>
        ELSE IF key \in ObjectPrototypeKeys THEN <<ObjectPrototypeMember>>
        ELSE <<>>

\* module[name] of the imported module is defined: the file declares name
\* at its top level with the export keyword
Imported(file, name) ==
    \E a \in 1..Len(file.statements) :
        /\ file.statements[a].exported
        /\ \E b \in 1..Len(DeclaredNames(file.statements[a])) :
               IdentifierText(DeclaredNames(file.statements[a])[b]) = name

\* one item written to standard output or standard error
Out(kind, value) == [kind |-> kind, value |-> value]

\* the local variables of main() before it has set any
CliFrame ==
    [flags |-> <<>>, constructorArgs |-> <<>>, modulePath |-> <<>>, methodName |-> <<>>,
     spec |-> <<>>, methodInfo |-> <<>>, constructorValues |-> <<>>,
     methodArgs |-> <<>>, config |-> <<>>]

\* the process writes out and err and ends with status code
Finish(code, out, err) ==
    /\ pc' = "exited"
    /\ exitCode' = <<code>>
    /\ stdout' = stdout \o out
    /\ stderr' = stderr \o err

FinishWith(report) == Finish(report.code, report.out, report.err)

\* the process goes on to the step at without writing anything
GoTo(at) ==
    /\ pc' = at
    /\ UNCHANGED <<stdout, stderr, exitCode>>

GenerateAlias == <<<<<<"h">>, S_Help>>, <<<<"j">>, S_Json>>, <<<<"s">>, S_Simple>>>>
MainAlias == <<<<<<"h">>, S_Help>>>>

\* the warnings of parseCommandLineArgs: one per flag that is not an option
UnknownOptions(args) ==
    Map(Filter(args, LAMBDA arg :
                   IsFlag(arg) /\ FlagKeys(arg, GenerateAlias) \cap {S_Help, S_Json, S_Simple} = {}),
        LAMBDA arg : Out("warning", arg))

\* main() of main.ts up to its first await: generate mode runs main() of
\* spec.ts, whose parseCommandLineArgs drops the word generate; standard
\* mode reads the flags and the constructor arguments
Main ==
    /\ pc = "main"
    /\ IF argv # <<>> /\ argv[1] = S_Generate
       THEN LET flags == parseArgs(Tail(argv), GenerateAlias)
                warnings == UnknownOptions(Tail(argv))
            IN  IF HasKey(flags, S_Help)
                THEN Finish(0, <<Out("generatorMenu", <<>>)>>, warnings) /\ UNCHANGED frame
                ELSE IF flags.positional = <<>>
                THEN /\ Finish(1, <<Out("generatorMenu", <<>>)>>,
                               warnings \o <<Out("error", "Missing path to module")>>)
                     /\ UNCHANGED frame
                ELSE /\ frame' = [frame EXCEPT !.config =
                                     <<[filePath |-> flags.positional[1],
                                        outputJson |-> HasKey(flags, S_Json),
                                        useSimpleFormat |-> HasKey(flags, S_Simple)]>>]
                     /\ pc' = "generateModuleSpecification"
                     /\ stderr' = stderr \o warnings
                     /\ UNCHANGED <<stdout, exitCode>>
       ELSE LET flags == parseArgs(argv, MainAlias)
            IN  IF HasKey(flags, S_Help) \/ Len(flags.positional) < 1
                THEN Finish(0, <<Out("menu", <<>>)>>, <<>>) /\ UNCHANGED frame
                ELSE /\ frame' = [frame EXCEPT
                                     !.flags = flags,
                                     !.constructorArgs = CollectConstructorArgs(argv),
                                     !.modulePath = flags.positional[1],
                                     !.methodName = IF Len(flags.positional) > 1
                                                    THEN <<flags.positional[2]>> ELSE <<>>]
                     /\ GoTo("parseModule")
    /\ UNCHANGED <<publishVars, config, typeText, pending, lastCall, fileContent, filePath, project,
                   results, argv, calls>>

\* the signature line main() prints for a call that misses parameters
SignatureOf(methodInfo) ==
    Map(methodInfo.params,
        LAMBDA p : [name |-> p.name, optional |-> p.optional, type |-> p.type.rawType])

\* a variant of NotPublic that refuses only what has no visibility at all
NotPublicNever(methodInfo) == methodInfo.visibility = "undefined"

\* methodInfo.visibility !== 'public'
NotPublic(methodInfo) == methodInfo.visibility # "public"

\* the checks main() makes on the descriptor found under the method name,
\* <<>> when there is none, before the module is imported
MethodChecks(outcome, methodInfo) ==
    IF methodInfo = <<>>
    THEN /\ Finish(0, <<Out("moduleMenu", <<>>)>>,
                   <<Out("Method not found", frame.methodName[1])>>)
         /\ UNCHANGED frame
    ELSE IF NotPublic(methodInfo[1])
    THEN /\ Finish(0, <<>>, <<Out("is not public", frame.methodName[1])>>)
         /\ UNCHANGED frame
    ELSE IF getMissingParams(methodInfo[1], frame.flags) # <<>>
    THEN /\ Finish(0, <<>>,
                   <<Out("Missing required parameters",
                         getMissingParams(methodInfo[1], frame.flags)),
                     Out("Method signature", SignatureOf(methodInfo[1]))>>)
         /\ UNCHANGED frame
    ELSE /\ frame' = [frame EXCEPT !.spec = outcome.value, !.methodInfo = methodInfo]
         /\ GoTo("importModule")

\* main() after parseModule, by the outcome of its get()
ModuleChecks(outcome) ==
    IF outcome.status = "rejected"
    THEN /\ Finish(0, <<Out("error", "Failed to parse module")>>, <<>>)
         /\ UNCHANGED frame
    ELSE IF frame.methodName = <<>>
    THEN /\ Finish(0, <<Out("moduleMenu", <<>>)>>, <<>>)
         /\ UNCHANGED frame
    ELSE MethodChecks(outcome, MethodAt(outcome.value[1].methods, frame.methodName[1]))

\* main(): await parseModule(modulePath), then the checks made before the
\* module is imported
ParseModule ==
    /\ pc = "parseModule"
    /\ filePath' = frame.modulePath
    /\ ModuleChecks(GetOutcome(frame.modulePath, {}))
    /\ UNCHANGED <<publishVars, config, typeText, pending, lastCall, fileContent, project, results,
                   argv, calls>>

\* what the code of the imported module can do when it is constructed or
\* called: throw, or return one of these values
ReturnValues == {JsNumber(15), JsNull, JsUndefined}

\* the parts of the method name: methodName.split('.')
PartsOf(methodName) == Split(methodName, ".")

\* main(): await importModule(modulePath), which can fail although the
\* file could be parsed, then the start of the execute function of the
\* method's kind, up to the first time it runs code of the module
ImportModule ==
    /\ pc = "importModule"
    /\ LET methodName == frame.methodName[1]
           methodInfo == frame.methodInfo[1]
           parts == PartsOf(methodName)
           file == ReadTextFile(frame.modulePath)
       IN  \E imported \in BOOLEAN :
           IF ~imported
           THEN /\ Finish(0, <<Out("error", "Failed to import module")>>, <<>>)
                /\ UNCHANGED frame
           ELSE IF methodInfo.methodKind = "function"
           THEN IF ~Imported(file, parts[1])
                THEN /\ Finish(0, <<>>, <<Out("Function not found in module", methodName)>>)
                     /\ UNCHANGED frame
                ELSE /\ frame' = [frame EXCEPT !.methodArgs =
                                     getMethodArgs(frame.flags, methodInfo)]
                     /\ GoTo("call")
           ELSE IF methodInfo.methodKind \in {"instance", "static"}
           THEN IF Len(parts) < 2
                THEN /\ Finish(0, <<>>, <<Out("Invalid method name", methodName)>>)
                     /\ UNCHANGED frame
                ELSE IF ~Imported(file, parts[1])
                THEN /\ Finish(0, <<>>, <<Out("Class not found in module", parts[1])>>)
                     /\ UNCHANGED frame
                ELSE IF methodInfo.methodKind = "static"
                THEN /\ frame' = [frame EXCEPT !.methodArgs =
                                     getMethodArgs(frame.flags, methodInfo)]
                     /\ GoTo("call")
                ELSE /\ frame' = [frame EXCEPT !.constructorValues =
                                     ConstructorValues(
                                         frame.constructorArgs,
                                         MethodAt(frame.spec[1].methods,
                                                  parts[1] \o <<".">> \o S_Constructor))]
                     /\ GoTo("construct")
           ELSE /\ Finish(0, <<>>, <<Out("Unsupported method kind", methodInfo.methodKind)>>)
                /\ UNCHANGED frame
    /\ UNCHANGED <<publishVars, config, typeText, pending, lastCall, fileContent, filePath, project,
                   results, argv, calls>>

\* executeInstanceMethod: new ClassConstructor(...constructorValues), then
\* getMethodArgs; a constructor that throws ends the run with an error
Construct ==
    /\ pc = "construct"
    /\ \E constructed \in BOOLEAN :
           /\ calls' = Append(calls, [op |-> "new",
                                      target |-> PartsOf(frame.methodName[1])[1],
                                      args |-> frame.constructorValues,
                                      outcome |-> IF constructed THEN <<JsObject>> ELSE <<>>])
           /\ IF constructed
              THEN /\ frame' = [frame EXCEPT !.methodArgs =
                                   getMethodArgs(frame.flags, frame.methodInfo[1])]
                   /\ GoTo("call")
              ELSE /\ Finish(0, <<Out("error", "Error executing instance method")>>, <<>>)
                   /\ UNCHANGED frame
    /\ UNCHANGED <<publishVars, config, typeText, pending, lastCall, fileContent, filePath, project,
                   results, argv>>

\* the call of the function or method with methodArgs, awaited when the
\* descriptor is async, and the end of main(): a result other than null is
\* printed; a call that throws prints an error and gives null
Call ==
    /\ pc = "call"
    /\ \E outcome \in {<<>>} \cup {<<v>> : v \in ReturnValues} :
           /\ calls' = Append(calls, [op |-> "call",
                                      target |-> frame.methodName[1],
                                      args |-> frame.methodArgs,
                                      outcome |-> outcome])
           /\ IF outcome = <<>>
              THEN Finish(0, <<Out("error", "Error executing")>>, <<>>)
              ELSE IF outcome[1] # JsNull
              THEN Finish(0, <<Out("result", outcome[1])>>, <<>>)
              ELSE Finish(0, <<>>, <<>>)
    /\ UNCHANGED <<publishVars, config, typeText, pending, lastCall, fileContent, filePath, project,
                   results, argv, frame>>

\* a variant of GenerateReport that reports a failure as parseModule of
\* main.ts does: the error is printed and the run ends normally
GenerateReportLenient(outcome, moduleConfig) ==
    IF outcome.status = "rejected"
    THEN [out |-> <<Out("error", "Failed to parse module")>>, err |-> <<>>, code |-> 0]
    ELSE [out |-> <<Out("json", outcome.value[1])>>, err |-> <<>>, code |-> 0]

\* generateModuleSpecification and the catch of main() of spec.ts: what is
\* written and the exit status, by the outcome of get()
GenerateReport(outcome, moduleConfig) ==
    IF outcome.status = "rejected"
    THEN [out |-> <<>>, err |-> <<Out("error", "message and stack")>>, code |-> 1]
    ELSE IF moduleConfig.outputJson
    THEN [out |-> <<Out("json", IF moduleConfig.useSimpleFormat THEN "simple"
                                ELSE "result")>>,
          err |-> <<>>, code |-> 0]
    ELSE [out |-> <<Out("moduleInfo", moduleConfig.useSimpleFormat),
                    Out("blank", <<>>),
                    Out("methods", moduleConfig.useSimpleFormat)>>,
          err |-> <<>>, code |-> 0]

\* main() of spec.ts: await generateModuleSpecification(result.config)
GenerateModuleSpecification ==
    /\ pc = "generateModuleSpecification"
    /\ filePath' = frame.config[1].filePath
    /\ FinishWith(GenerateReport(GetOutcome(frame.config[1].filePath, {}),
                                 frame.config[1]))
    /\ UNCHANGED <<publishVars, config, typeText, pending, lastCall, fileContent, project, results,
                   argv, frame, calls>>

NextCli ==
    \/ Main
    \/ ParseModule
    \/ ImportModule
    \/ Construct
    \/ Call
    \/ GenerateModuleSpecification

\* A class with a documented constructor (v: number, w: string), a method m
\* with a required parameter x: number, a method n without parameters and a
\* private method p
CliClass ==
    Class("C", TRUE,
          <<Member("constructor", "constructor", FALSE, FALSE, {},
                   <<Block(<<"N","e","w">>,
                           <<Tag("param", <<"v">>, T_number, <<>>, FALSE),
                             Tag("param", <<"w">>, T_string, <<>>, FALSE)>>)>>,
                   <<Param(<<"v">>, T_number), Param(<<"w">>, T_string)>>, <<>>),
            Member("method", "m", FALSE, FALSE, {}, DocFull, PX, <<>>),
            Member("method", "n", FALSE, TRUE, {}, DocReturns, <<>>, <<>>),
            Member("method", "p", FALSE, FALSE, {"private"}, DocFull, PX, <<>>)>>)

\* the same class without a constructor, with a static n and a protected q
CliClassPlain ==
    Class("C", TRUE,
          <<Member("method", "m", FALSE, FALSE, {}, DocFull, PX, <<>>),
            Member("method", "n", TRUE, FALSE, {}, DocReturns, <<>>, <<>>),
            Member("method", "q", FALSE, FALSE, {"protected"}, DocReturns, <<>>, <<>>)>>)

\* /** @param {string} date  @param {number} n (optional) */
\* export function f(date, n)
CliFunction ==
    Function("f", TRUE, FALSE,
             <<Block(<<"F","m","t">>,
                     <<Tag("param", <<"d","a","t","e">>, T_string, <<>>, FALSE),
                       Tag("param", <<"n">>, T_number, S_OptionalMark, FALSE)>>)>>,
             <<Param(<<"d","a","t","e">>, T_string), Param(<<"n">>, T_number)>>)

CliFiles == {SourceFile(<<CliClass, CliFunction>>), SourceFile(<<CliFunction, CliClassPlain>>)}

Flag(name, value) == <<"-","-">> \o name \o <<"=">> \o value

OptionPool ==
    { Flag(<<"x">>, <<"1","0">>),
      Flag(ConstructorKey(<<"v">>), <<"5">>),
      Flag(ConstructorKey(<<"w">>), <<"a","b">>),
      Flag(<<"d","a","t","e">>, <<"a","b">>),
      Flag(<<"d">>, <<"a","b">>),
      <<"-","d","=","7">>,
      <<"-","-">> \o S_Json,
      <<"-","h">> }

MethodNames ==
    {<<"C",".","m">>, <<"C",".","n">>, <<"C",".","p">>, <<"C",".","q">>, <<"f">>, <<"z">>,
     S_ToString}

MaxArgs == 2

\* the command lines studied: module-to-cli [path [method]] options and
\* module-to-cli generate [path] options
CliArgs ==
    {positional \o options :
        positional \in {<<>>} \cup {<<path>> : path \in {P_Calc, P_Missing}}
                          \cup {<<P_Calc, method>> : method \in MethodNames}
                          \cup {<<S_Generate>>}
                          \cup {<<S_Generate, path>> : path \in {P_Calc, P_Missing}},
        options \in SeqsUpTo(OptionPool, MaxArgs)}

InitCli ==
    /\ config = DEFAULT_AST_CONFIG
    /\ NormalizerIdle
    /\ fileContent \in CliFiles
    /\ filePath = <<>>
    /\ project = <<>>
    /\ results = <<>>
    /\ argv \in CliArgs
    /\ pc = "main"
    /\ frame = CliFrame
    /\ stdout = <<>>
    /\ stderr = <<>>
    /\ exitCode = <<>>
    /\ calls = <<>>
    /\ PublishIdle

SpecCli == InitCli /\ [][NextCli]_vars

---------------------------------------------------------------------------
(* What the command-line runs do.                                          *)

GenerateRun == argv # <<>> /\ argv[1] = S_Generate

\* the kinds of the items that make up a printed specification
SpecificationItems == {"json", "moduleInfo", "blank", "methods"}

PrintedSpecification == \E j \in 1..Len(stdout) : stdout[j].kind \in SpecificationItems

\* the generate run was given a path at which no file can be read
UnreadableGenerateRun ==
    /\ GenerateRun
    /\ pc = "exited"
    /\ frame.config # <<>>
    /\ ReadTextFile(frame.config[1].filePath) = <<>>

\* C18: a generate run on a path that cannot be read ends having written an
\* error to standard error and nothing to standard output, with a non-zero
\* exit status; and no generate run that ends with a non-zero status has
\* written any part of a specification.
C18_UnreadableFailsWhole ==
    /\ UnreadableGenerateRun =>
           /\ \E j \in 1..Len(stderr) : stderr[j].kind = "error"
           /\ stdout = <<>>
           /\ exitCode # <<>> /\ exitCode[1] # 0
    /\ (GenerateRun /\ exitCode # <<>> /\ exitCode[1] # 0) => ~PrintedSpecification

C18_Witness == UnreadableGenerateRun /\ exitCode = <<1>> /\ filePath = P_Missing

\* the text typed last on the command line for the flag of this name, with
\* one dash or two: <<>> when the flag is not given
TypedUnder(name) ==
    LET hits == {j \in 1..Len(argv) :
                    \/ StartsWith(argv[j], <<"-","-">> \o name \o <<"=">>)
                    \/ StartsWith(argv[j], <<"-">> \o name \o <<"=">>)}
        last == CHOOSE j \in hits : \A k \in hits : j >= k
    IN  IF hits = {} THEN <<>>
        ELSE <<Slice(argv[last], IndexOf(argv[last], <<"=">>) + 1, Len(argv[last]))>>

\* the value a typed text stands for under a documented type: the number
\* it denotes for number, the text itself for string
TypedValue(text, documented) ==
    IF documented = T_number THEN ToNumber(text) ELSE JsString(text)

\* the arguments expected for documented parameters whose flags start with
\* prefix: undefined for a parameter that is not given
ExpectedArgs(params, prefix) ==
    [j \in 1..Len(params) |->
        IF TypedUnder(prefix \o params[j].name) = <<>> THEN JsUndefined
        ELSE TypedValue(TypedUnder(prefix \o params[j].name)[1], params[j].type.rawType)]

InstanceRun == frame.methodInfo # <<>> /\ frame.methodInfo[1].methodKind = "instance"

ClassOfRun == PartsOf(frame.methodName[1])[1]

ConstructorOfRun ==
    MethodAt(frame.spec[1].methods, ClassOfRun \o <<".">> \o S_Constructor)

\* C19: in a run that invokes an instance method C.m, the operations made
\* on the module are, in this order, at most one construction of C, with
\* the --constructor.<param> values converted by the documented types in
\* the documented order, and then at most one call of C.m with the
\* converted method arguments, made only after the construction returned;
\* a result is printed only after that call, it is the value the call
\* returned, and every returned value other than null is printed.
C19_ConstructThenCall ==
    InstanceRun =>
        /\ Len(calls) <= 2
        /\ Len(calls) >= 1 =>
               /\ calls[1].op = "new"
               /\ calls[1].target = ClassOfRun
               /\ calls[1].args =
                      IF ConstructorOfRun = <<>> THEN <<>>
                      ELSE ExpectedArgs(ConstructorOfRun[1].params, S_Constructor \o <<".">>)
        /\ Len(calls) = 2 =>
               /\ calls[1].outcome # <<>>
               /\ calls[2].op = "call"
               /\ calls[2].target = frame.methodName[1]
               /\ calls[2].args = ExpectedArgs(frame.methodInfo[1].params, <<>>)
        /\ \A j \in 1..Len(stdout) :
               stdout[j].kind = "result" =>
                   Len(calls) = 2 /\ calls[2].outcome = <<stdout[j].value>>
        /\ (pc = "exited" /\ Len(calls) = 2 /\ calls[2].outcome # <<>>
                /\ calls[2].outcome[1] # JsNull) =>
               \E j \in 1..Len(stdout) : stdout[j].kind = "result"

\* C.m --x=10 --constructor.v=5 has constructed C with 5, called m with 10
\* and printed what m returned
C19_Witness ==
    /\ InstanceRun
    /\ pc = "exited"
    /\ Len(calls) = 2
    /\ calls[1].args = <<JsNumber(5), JsUndefined>>
    /\ calls[2].args = <<JsNumber(10)>>
    /\ Len(stdout) = 1
    /\ stdout[1].kind = "result"
    /\ stdout[1].value = JsNumber(15)

\* the required parameters of the run's method that are given only under
\* the first letter of their name
ShorthandOnly ==
    {k \in 1..Len(frame.methodInfo[1].params) :
        LET p == frame.methodInfo[1].params[k]
        IN  /\ ~p.optional
            /\ Len(p.name) > 1
            /\ TypedUnder(p.name) = <<>>
            /\ TypedUnder(<<p.name[1]>>) # <<>>}

\* C20: a run whose method has a required parameter given only under the
\* first letter of its name is not refused for a missing parameter, and
\* the call it makes passes, as that parameter, the value typed under the
\* letter.
C20_ShorthandPassed ==
    (frame.methodInfo # <<>> /\ ShorthandOnly # {}) =>
        /\ \A j \in 1..Len(stderr) : stderr[j].kind # "Missing required parameters"
        /\ \A j \in 1..Len(calls) :
               calls[j].op = "call" =>
                   \A k \in ShorthandOnly :
                       calls[j].args[k] =
                           TypedValue(TypedUnder(<<frame.methodInfo[1].params[k].name[1]>>)[1],
                                      frame.methodInfo[1].params[k].type.rawType)

\* a run in standard mode that was given a module path
StandardRun == ~GenerateRun /\ pc # "main" /\ frame.modulePath # <<>>

\* the run has got as far as importing the module
ReachedImport == pc \in {"importModule", "construct", "call"} \/ frame.spec # <<>>

\* the keys of the specification parsed from the file the run names
OwnKeys ==
    {KeyText(e.name) : e \in Entries(WalkMethods(ReadTextFile(frame.modulePath)))}

\* C21: a standard run whose module cannot be parsed, or whose method name
\* is not a key of the parsed specification, never imports the module and
\* invokes nothing, and once it has ended it has reported the error (for
\* the method name, 'Method not found: <name>' on standard error) and its
\* exit status is 0.
C21_ErrorsStopTheRun ==
    StandardRun =>
        /\ ReadTextFile(frame.modulePath) = <<>> =>
               /\ ~ReachedImport /\ calls = <<>>
               /\ pc = "exited" =>
                      /\ \E j \in 1..Len(stdout) : stdout[j].kind = "error"
                      /\ exitCode = <<0>>
        /\ (ReadTextFile(frame.modulePath) # <<>> /\ frame.methodName # <<>>
                /\ frame.methodName[1] \notin OwnKeys) =>
               /\ ~ReachedImport /\ calls = <<>>
               /\ pc = "exited" =>
                      /\ \E j \in 1..Len(stderr) :
                             /\ stderr[j].kind = "Method not found"
                             /\ stderr[j].value = frame.methodName[1]
                      /\ exitCode = <<0>>

\* the descriptor the parsed specification holds for the method the run
\* names, when it is a private or protected one
NonPublicNamed ==
    /\ StandardRun
    /\ ReadTextFile(frame.modulePath) # <<>>
    /\ frame.methodName # <<>>
    /\ \E e \in Entries(WalkMethods(ReadTextFile(frame.modulePath))) :
           KeyText(e.name) = frame.methodName[1]
               /\ e.visibility \in {"private", "protected"}

\* C30: a standard run that names a method whose descriptor is private or
\* protected never imports the module, constructs nothing and calls
\* nothing, and ends having reported that the method is not public.
C30_NonPublicNeverInvoked ==
    NonPublicNamed =>
        /\ ~ReachedImport
        /\ calls = <<>>
        /\ pc = "exited" =>
               \E j \in 1..Len(stderr) :
                   stderr[j].kind = "is not public" /\ stderr[j].value = frame.methodName[1]

\* C.p --x=10 on the class whose p is private has ended
C30_Witness ==
    /\ NonPublicNamed
    /\ pc = "exited"
    /\ frame.methodName[1] = <<"C",".","p">>
    /\ TypedUnder(<<"x">>) # <<>>

---------------------------------------------------------------------------
(* Declarations with several documentation blocks.                         *)

FirstBlock(jsDocs) == IF jsDocs = <<>> THEN <<>> ELSE <<jsDocs[1]>>

\* the statement with every block but the first taken off the function or
\* variable statement, or off each member of the class
FirstBlocksOnly(statement) ==
    IF statement.kind \in {"function", "variable"}
    THEN [statement EXCEPT !.jsDocs = FirstBlock(@)]
    ELSE IF statement.kind = "class"
    THEN [statement EXCEPT !.members =
             [b \in 1..Len(@) |-> [@[b] EXCEPT !.jsDocs = FirstBlock(@)]]]
    ELSE statement

ModuleLevel(block) ==
    /\ ~block.throws
    /\ block.parsed # <<>>
    /\ \E j \in 1..Len(block.parsed[1].tags) : block.parsed[1].tags[j].tag = "module"

\* the file is one function with two documentation blocks
TwoBlockFunction ==
    /\ Len(Statements) = 1
    /\ Statements[1].kind = "function"
    /\ Len(Statements[1].jsDocs) = 2

---------------------------------------------------------------------------
(* The release script (src/scripts): commit analysis, version bump, the    *)
(* updates of the config file and of the changelog, and the transaction    *)
(* of publishPackage with its rollbacks.                                   *)

S_BreakingChange == <<"B","R","E","A","K","I","N","G"," ","C","H","A","N","G","E">>
S_SkipRelease == <<"[","s","k","i","p"," ","r","e","l","e","a","s","e","]">>
S_FeatType == <<"f","e","a","t">>
S_FixType == <<"f","i","x">>
S_PerfType == <<"p","e","r","f">>

\* /(BREAKING CHANGE|![:]?)/.test(message): the text BREAKING CHANGE, or an
\* exclamation mark, anywhere in the message
BreakingPattern(message) == Includes(message, S_BreakingChange) \/ Includes(message, <<"!">>)

\* the length of the longest run of [a-z] the text starts with
LeadingLower(text) ==
    CHOOSE n \in 0..Len(text) :
        /\ \A i \in 1..n : text[i] \in LowerCase
        /\ n = Len(text) \/ text[n + 1] \notin LowerCase

ScopeChars == LowerCase \cup {"-", "_", "/"}

\* (\([a-z-_/]+\))? at position p: the position after the scope, p if none
ScopeEnd(text, p) ==
    IF p <= Len(text) /\ text[p] = "("
       /\ \E q \in (p + 2)..Len(text) :
              text[q] = ")" /\ \A i \in (p + 1)..(q - 1) : text[i] \in ScopeChars
    THEN 1 + CHOOSE q \in (p + 2)..Len(text) :
                 text[q] = ")" /\ \A i \in (p + 1)..(q - 1) : text[i] \in ScopeChars
    ELSE p

\* the position after an optional exclamation mark at position p
BangEnd(text, p) == IF p <= Len(text) /\ text[p] = "!" THEN p + 1 ELSE p

\* text.match(/^([a-z]+)(\([a-z-_/]+\))?!?:/): <<the type>>, <<>> for null
TypeMatch(text) ==
    LET n == LeadingLower(text)
        q == BangEnd(text, ScopeEnd(text, n + 1))
    IN  IF n >= 1 /\ q <= Len(text) /\ text[q] = ":" THEN <<Slice(text, 1, n)>> ELSE <<>>

\* the switch of determineBumpType on the commit type
BumpAfter(type, bump) ==
    CASE type = S_FeatType -> IF bump = "major" THEN "major" ELSE "minor"
      [] type \in {S_FixType, S_PerfType} -> IF bump \in {"major", "minor"} THEN bump ELSE "patch"
      [] OTHER -> bump

\* the loop of determineBumpType over the messages left, bump being the
\* value of its local variable
RECURSIVE BumpLoop(_, _)
BumpLoop(messages, bump) ==
    IF messages = <<>> THEN bump
    ELSE IF BreakingPattern(Head(messages)) THEN "major"
    ELSE IF TypeMatch(Head(messages)) = <<>> THEN BumpLoop(Tail(messages), bump)
    ELSE BumpLoop(Tail(messages), BumpAfter(TypeMatch(Head(messages))[1], bump))

\* determineBumpType(messages); "null" stands for null
determineBumpType(messages) == BumpLoop(messages, "null")

\* incrementVersion(version, bumpType) on a version <<major, minor, patch>>
incrementVersion(version, bumpType) ==
    CASE bumpType = "major" -> <<version[1] + 1, 0, 0>>
      [] bumpType = "minor" -> <<version[1], version[2] + 1, 0>>
      [] bumpType = "patch" -> <<version[1], version[2], version[3] + 1>>
      [] OTHER -> version

LowerOf(c) ==
    IF c \in UpperCase
    THEN ("A" :> "a" @@ "B" :> "b" @@ "C" :> "c" @@ "D" :> "d" @@ "E" :> "e" @@ "F" :> "f" @@
          "G" :> "g" @@ "H" :> "h" @@ "I" :> "i" @@ "J" :> "j" @@ "K" :> "k" @@ "L" :> "l" @@
          "M" :> "m" @@ "N" :> "n" @@ "O" :> "o" @@ "P" :> "p" @@ "Q" :> "q" @@ "R" :> "r" @@
          "S" :> "s" @@ "T" :> "t" @@ "U" :> "u" @@ "V" :> "v" @@ "W" :> "w" @@ "X" :> "x" @@
          "Y" :> "y" @@ "Z" :> "z")[c]
    ELSE c

\* /\[skip release\]/.test(message), without the i flag
SkipReleasePatternExact(message) == Includes(message, S_SkipRelease)

\* /\[skip release\]/i.test(message)
SkipReleasePattern(message) == Includes([i \in 1..Len(message) |-> LowerOf(message[i])], S_SkipRelease)

\* Config files to check in priority order
CONFIG_FILES == <<"jsr.json", "deno.json", "deno.jsonc">>

CHANGELOG_FILE == "CHANGELOG.md"

\* readTextFile(path): <<the content>>, <<>> for null
readTextFile(files, path) == files[path]

\* fileExists(path)
fileExists(files, path) == files[path] # <<>>

\* writeTextFile(path, content, dryRun) without regard for dryRun
writeTextFileAlways(files, path, content, dryRun) == [files EXCEPT ![path] = <<content>>]

\* writeTextFile(path, content, dryRun): the files afterwards
writeTextFile(files, path, content, dryRun) == IF dryRun THEN files ELSE [files EXCEPT ![path] = <<content>>]

\* findConfigFile(configFiles): <<[path, data]>> of the first file that can
\* be read, <<>> for null
findConfigFile(files, configFiles) ==
    IF \E i \in 1..Len(configFiles) : readTextFile(files, configFiles[i]) # <<>>
    THEN LET i == CHOOSE i \in 1..Len(configFiles) :
                      /\ readTextFile(files, configFiles[i]) # <<>>
                      /\ \A j \in 1..(i - 1) : readTextFile(files, configFiles[j]) = <<>>
         IN  <<[path |-> configFiles[i], data |-> readTextFile(files, configFiles[i])[1]]>>
    ELSE <<>>

\* a config file's text: whether it parses, and the value of its "version"
\* entry as <<major, minor, patch>>, <<>> when it has none
ConfigData(parses, version) == [parses |-> parses, version |-> version]

\* data.replace(/"version"\s*:\s*"[^"]*"/, `"version": "${version}"`)
ReplaceVersion(data, version) == IF data.version = <<>> THEN data ELSE [data EXCEPT !.version = version]

\* updateVersion(version, dryRun): whether it threw, and the files afterwards
updateVersion(files, version, dryRun) ==
    IF findConfigFile(files, CONFIG_FILES) = <<>>
    THEN [threw |-> TRUE, files |-> files]
    ELSE [threw |-> FALSE,
          files |-> writeTextFile(files, findConfigFile(files, CONFIG_FILES)[1].path,
                                  ReplaceVersion(findConfigFile(files, CONFIG_FILES)[1].data, version),
                                  dryRun)]

\* the value of groups in groupCommitsByType after the message
GroupStep(groups, message) ==
    LET firstLine == Trim(Split(message, "\n")[1])
        typeMatch == TypeMatch(firstLine)
    IN  IF firstLine = <<>> THEN groups
        ELSE IF BreakingPattern(message)
        THEN [groups EXCEPT !.breaking = Append(@, message)]
        ELSE IF typeMatch = <<>> THEN groups
        ELSE CASE typeMatch[1] = S_FeatType -> [groups EXCEPT !.feat = Append(@, message)]
               [] typeMatch[1] = S_FixType -> [groups EXCEPT !.fix = Append(@, message)]
               [] typeMatch[1] = S_PerfType -> [groups EXCEPT !.perf = Append(@, message)]
               [] OTHER -> groups

NoGroups == [breaking |-> <<>>, feat |-> <<>>, fix |-> <<>>, perf |-> <<>>, other |-> <<>>]

RECURSIVE GroupLoop(_, _)
GroupLoop(messages, groups) ==
    IF messages = <<>> THEN groups
    ELSE GroupLoop(Tail(messages), GroupStep(groups, Head(messages)))

\* groupCommitsByType(messages)
groupCommitsByType(messages) == GroupLoop(messages, NoGroups)

\* The changelog's text is the sequence of its blocks: the title block of
\* CHANGELOG_HEADER_TEMPLATE, and one block per version ("## [...").
TitleBlock == [heading |-> "title", version |-> <<>>, groups |-> NoGroups]

VersionBlock(version, groups) == [heading |-> "version", version |-> version, groups |-> groups]

\* currentContent.indexOf('## ['): the index of the first version block, 0
\* when there is none
HeaderEndPos(currentContent) ==
    IF \E i \in 1..Len(currentContent) : currentContent[i].heading = "version"
    THEN CHOOSE i \in 1..Len(currentContent) :
             /\ currentContent[i].heading = "version"
             /\ \A j \in 1..(i - 1) : currentContent[j].heading # "version"
    ELSE 0

\* the new content of an existing changelog
InsertEntry(currentContent, versionEntry) ==
    IF HeaderEndPos(currentContent) = 0
    THEN Append(currentContent, versionEntry)
    ELSE Slice(currentContent, 1, HeaderEndPos(currentContent) - 1)
         \o <<versionEntry>>
         \o Slice(currentContent, HeaderEndPos(currentContent), Len(currentContent))

\* updateChangelog(version, messages, changelogPath, dryRun): its return
\* value and the files afterwards
updateChangelog(files, version, messages, changelogPath, dryRun) ==
    IF fileExists(files, changelogPath)
    THEN IF readTextFile(files, changelogPath)[1] = <<>>
         THEN [success |-> FALSE, files |-> files]
         ELSE [success |-> TRUE,
               files |-> writeTextFile(files, changelogPath,
                             InsertEntry(readTextFile(files, changelogPath)[1],
                                         VersionBlock(version, groupCommitsByType(messages))),
                             dryRun)]
    ELSE [success |-> TRUE,
          files |-> writeTextFile(files, changelogPath,
                        <<TitleBlock, VersionBlock(version, groupCommitsByType(messages))>>,
                        dryRun)]

\* The repository: whether the working directory is one, the messages of
\* the commits since the latest tag, the files committed at the head the
\* run starts from, the number of release commits on the local branch and
\* on the remote one, and the release tags here and on the remote.
Repository(isRepo, messages, tree) ==
    [isRepo |-> isRepo, log |-> messages, tree |-> tree,
     head |-> 0, remoteHead |-> 0, tags |-> {}, remoteTags |-> {}]

\* the git commands of createGitRelease, in the order they are run
GitReleaseCommands == <<"revparse", "add", "commit", "addTag", "pushTag", "push">>

\* whether command is reached and succeeds when the command failing is
\* the one named failing ("none": every command succeeds)
Done(commandList, command, failing) ==
    \E i \in 1..Len(commandList) :
        /\ commandList[i] = command
        /\ \A j \in 1..i : commandList[j] # failing

\* createGitRelease(version, files) when the git command named failing
\* fails: whether it threw, the repository afterwards and its return value
createGitRelease(repo, version, failing) ==
    [threw |-> failing # "none",
     repo |-> [repo EXCEPT
                  !.head = IF Done(GitReleaseCommands, "commit", failing) THEN @ + 1 ELSE @,
                  !.tags = IF Done(GitReleaseCommands, "addTag", failing) THEN @ \cup {version} ELSE @,
                  !.remoteTags = IF Done(GitReleaseCommands, "pushTag", failing) THEN @ \cup {version} ELSE @,
                  !.remoteHead = IF Done(GitReleaseCommands, "push", failing) THEN repo.head + 1 ELSE @],
     result |-> [tagName |-> version, currentHead |-> repo.head]]

\* the git commands of rollbackGitChanges, in the order they are run
GitRollbackCommands == <<"tagDelete", "remoteDelete", "reset", "forcePush">>

\* rollbackGitChanges(tagName, currentHead) when the git command named
\* failing fails: a failing deletion of the remote tag is only logged, and
\* reset --hard brings the committed files back
rollbackGitChanges(repo, files, tagName, currentHead, failing) ==
    LET reached(command) ==
            Done(GitRollbackCommands, command, IF failing = "remoteDelete" THEN "none" ELSE failing)
    IN  [threw |-> failing \notin {"none", "remoteDelete"},
         repo |-> [repo EXCEPT
                      !.tags = IF reached("tagDelete") THEN @ \ {tagName} ELSE @,
                      !.remoteTags = IF reached("remoteDelete") /\ failing # "remoteDelete"
                                     THEN @ \ {tagName} ELSE @,
                      !.head = IF reached("reset") THEN currentHead ELSE @,
                      !.remoteHead = IF reached("forcePush") THEN currentHead ELSE @],
         files |-> IF reached("reset") THEN repo.tree ELSE files]

\* publishToJSR(dryRun, allowDirty): the argument list of the deno command
PublishCommand(dryRun) == IF dryRun THEN <<"publish", "--dry-run">> ELSE <<"publish">>

\* the PublishResult object; errorMessage is <<>> when there is none
PublishResult(oldVersion, newVersion, bumpType, success, errorMessage) ==
    [oldVersion |-> oldVersion, newVersion |-> newVersion, bumpType |-> bumpType,
     success |-> success, errorMessage |-> errorMessage]

\* defaultResult with success = false and the error message
DefaultFailure(errorMessage) == PublishResult(<<0, 0, 0>>, <<0, 0, 0>>, "null", FALSE, <<errorMessage>>)

\* the local variables of publishPackage before its first await
PublishStart ==
    [at |-> "start", configPath |-> "", currentVersion |-> <<>>, analysed |-> FALSE,
     messages |-> <<>>, bump |-> "null", nextVersion |-> <<>>, steps |-> <<>>,
     index |-> 0, toRollback |-> <<>>, error |-> <<>>, trace |-> <<>>, result |-> <<>>]

\* publishPackage returns value
Return(locals, value) == [locals EXCEPT !.at = "done", !.result = <<value>>]

\* the return statements of publishPackage that keep the current version
Unchanged(locals, success, errorMessage) ==
    Return(locals, PublishResult(locals.currentVersion, locals.currentVersion, "null",
                                 success, errorMessage))

\* the return statements of publishPackage once the next version is known
Outcome(locals, success, errorMessage) ==
    Return(locals, PublishResult(locals.currentVersion, locals.nextVersion, locals.bump,
                                 success, errorMessage))

\* the configFiles argument of the first findConfigFile call
ConfigFilesOf(opts) == IF opts.configFiles = <<>> THEN CONFIG_FILES ELSE opts.configFiles

\* publishPackage up to the call of analyzeCommitHistory, found being what
\* findConfigFile returned
AfterConfig(locals, found) ==
    IF found = <<>> THEN Return(locals, DefaultFailure("No configuration file found"))
    ELSE IF ~found[1].data.parses
    THEN Return(locals, DefaultFailure("Unhandled error: Failed to parse"))
    ELSE IF found[1].data.version = <<>>
    THEN Return(locals, DefaultFailure("No version field found in config"))
    ELSE [locals EXCEPT !.at = "analyze", !.configPath = found[1].path,
                        !.currentVersion = found[1].data.version]

PublishPackage ==
    /\ publish # <<>>
    /\ publish.at = "start"
    /\ publish' = AfterConfig(publish, findConfigFile(disk, ConfigFilesOf(publishOptions)))
    /\ UNCHANGED <<publishOptions, disk, git, executed>>
    /\ UNCHANGED <<config, typeText, pending, lastCall, fileContent, filePath, project,
                   results, cliVars>>

\* what git.checkIsRepo() can do: it resolves to true in a repository;
\* elsewhere it resolves to false, or is rejected
CheckIsRepoOutcomes(repo) == IF repo.isRepo THEN {"true"} ELSE {"false", "rejected"}

\* analyzeCommitHistory() when checkIsRepo does as check says: outside a
\* repository git.tags() and git.log() are rejected, and so is the call
analyzeCommitHistory(repo, check) ==
    IF check = "rejected"
    THEN [threw |-> FALSE, messages |-> <<>>, skipRelease |-> TRUE,
          error |-> <<"Not a git repository">>]
    ELSE IF check = "false"
    THEN [threw |-> TRUE, messages |-> <<>>, skipRelease |-> FALSE,
          error |-> <<"not a git repository">>]
    ELSE [threw |-> FALSE, messages |-> repo.log,
          skipRelease |-> \E i \in 1..Len(repo.log) : SkipReleasePattern(repo.log[i]),
          error |-> <<>>]

\* publishPackage from the bump it determined to the first update
AfterBump(locals, bump) ==
    IF bump = "null" THEN Unchanged(locals, TRUE, <<>>)
    ELSE [locals EXCEPT !.at = "update", !.bump = bump,
                        !.nextVersion = incrementVersion(locals.currentVersion, bump)]

\* publishPackage from the return of analyzeCommitHistory on
AfterAnalysis(locals, analysis) ==
    IF analysis.threw THEN Return(locals, DefaultFailure("Unhandled error"))
    ELSE IF analysis.skipRelease THEN Unchanged(locals, TRUE, <<>>)
    ELSE IF analysis.error # <<>> THEN Unchanged(locals, FALSE, analysis.error)
    ELSE AfterBump(locals, determineBumpType(analysis.messages))

\* what the returned analysis leaves in messages
Analysed(locals, analysis) == [locals EXCEPT !.analysed = TRUE, !.messages = analysis.messages, !.error = analysis.error]

AnalyzeCommitHistory ==
    /\ publish # <<>>
    /\ publish.at = "analyze"
    /\ \E check \in CheckIsRepoOutcomes(git) :
           publish' = AfterAnalysis(Analysed(publish, analyzeCommitHistory(git, check)),
                                    analyzeCommitHistory(git, check))
    /\ UNCHANGED <<publishOptions, disk, git, executed>>
    /\ UNCHANGED <<config, typeText, pending, lastCall, fileContent, filePath, project,
                   results, cliVars>>

\* the four pipelineSteps as publishPackage defines them
NewSteps == [k \in 1..4 |-> [requiresRollback |-> FALSE, result |-> <<>>]]

\* the two updates publishPackage makes before it defines the steps, given
\* what updateVersion did and what updateChangelog did after it
AfterUpdates(locals, versionUpdate, changelogUpdate) ==
    IF versionUpdate.threw THEN Outcome(locals, FALSE, <<"No config file found">>)
    ELSE IF ~changelogUpdate.success THEN Outcome(locals, FALSE, <<"Failed to update changelog">>)
    ELSE [locals EXCEPT !.at = "transaction", !.steps = NewSteps, !.index = 1]

\* updateChangelog after updateVersion, when the latter did not throw
ChangelogAfter(versionUpdate, locals, opts) ==
    IF versionUpdate.threw THEN [success |-> FALSE, files |-> versionUpdate.files]
    ELSE updateChangelog(versionUpdate.files, locals.nextVersion, locals.messages,
                         CHANGELOG_FILE, opts.dryRun)

UpdateBeforeTransaction ==
    /\ publish # <<>>
    /\ publish.at = "update"
    /\ publish' = AfterUpdates(publish,
                      updateVersion(disk, publish.nextVersion, publishOptions.dryRun),
                      ChangelogAfter(updateVersion(disk, publish.nextVersion, publishOptions.dryRun),
                                     publish, publishOptions))
    /\ disk' = ChangelogAfter(updateVersion(disk, publish.nextVersion, publishOptions.dryRun),
                              publish, publishOptions).files
    /\ UNCHANGED <<publishOptions, git, executed>>
    /\ UNCHANGED <<config, typeText, pending, lastCall, fileContent, filePath, project,
                   results, cliVars>>

\* what a step's execute or rollback did: whether it threw and with which
\* message, the files, the repository and the commands run afterwards, and
\* the value it returned
Effect(threw, error, files, repo, commands, result) ==
    [threw |-> threw, error |-> error, files |-> files, repo |-> repo,
     commands |-> commands, result |-> result]

\* originalContent ?? ''
OrEmpty(read) == IF read = <<>> THEN <<>> ELSE read[1]

\* step 1, 'Update version in config file': execute
ExecuteConfig(locals, opts, files, repo, commands) ==
    Effect(updateVersion(files, locals.nextVersion, opts.dryRun).threw,
           <<"No config file found">>,
           updateVersion(files, locals.nextVersion, opts.dryRun).files, repo, commands,
           [originalContent |-> OrEmpty(readTextFile(files, locals.configPath)),
            updatedPath |-> locals.configPath])

\* step 2, 'Update changelog': execute
ExecuteChangelog(locals, opts, files, repo, commands) ==
    Effect(FALSE, <<>>,
           updateChangelog(files, locals.nextVersion, locals.messages, CHANGELOG_FILE,
                           opts.dryRun).files,
           repo, commands,
           [originalContent |-> IF fileExists(files, CHANGELOG_FILE)
                                THEN OrEmpty(readTextFile(files, CHANGELOG_FILE)) ELSE <<>>,
            fileExistedBefore |-> fileExists(files, CHANGELOG_FILE),
            path |-> CHANGELOG_FILE])

\* step 3, 'Create git release': execute
ExecuteGitRelease(locals, opts, files, repo, commands, failing) ==
    IF opts.dryRun
    THEN Effect(FALSE, <<>>, files, repo, commands,
                [tagName |-> locals.nextVersion, currentHead |-> "dry-run"])
    ELSE Effect(createGitRelease(repo, locals.nextVersion, failing).threw, <<failing>>, files,
                createGitRelease(repo, locals.nextVersion, failing).repo, commands,
                createGitRelease(repo, locals.nextVersion, failing).result)

\* step 4, 'Publish to JSR': execute, when the validation run of deno
\* publish succeeds as validates says and the real one as publishes says
ExecutePublish(locals, opts, files, repo, commands, validates, publishes) ==
    IF opts.skipPublish
    THEN Effect(FALSE, <<>>, files, repo, commands, [published |-> FALSE])
    ELSE IF ~validates
    THEN Effect(FALSE, <<>>, files, repo, Append(commands, PublishCommand(TRUE)),
                [published |-> FALSE])
    ELSE IF opts.dryRun
    THEN Effect(FALSE, <<>>, files, repo, Append(commands, PublishCommand(TRUE)),
                [published |-> TRUE])
    ELSE Effect(~publishes, <<"Failed to publish to JSR">>, files, repo,
                commands \o <<PublishCommand(TRUE), PublishCommand(FALSE)>>,
                [published |-> TRUE])

\* what the environment decides while a step runs
Environment(failing, validates, publishes) ==
    [failing |-> failing, validates |-> validates, publishes |-> publishes]

Range(xs) == {xs[i] : i \in 1..Len(xs)}

\* the environments that make a difference to execute of step k
ExecuteEnvironments(k, opts) ==
    IF k = 3 /\ ~opts.dryRun
    THEN {Environment(f, TRUE, TRUE) : f \in {"none"} \cup Range(GitReleaseCommands)}
    ELSE IF k = 4 /\ ~opts.skipPublish
    THEN {Environment("none", v, p) : v \in BOOLEAN, p \in BOOLEAN}
    ELSE {Environment("none", TRUE, TRUE)}

\* pipelineSteps[k].execute()
StepExecute(k, locals, opts, files, repo, commands, env) ==
    CASE k = 1 -> ExecuteConfig(locals, opts, files, repo, commands)
      [] k = 2 -> ExecuteChangelog(locals, opts, files, repo, commands)
      [] k = 3 -> ExecuteGitRelease(locals, opts, files, repo, commands, env.failing)
      [] k = 4 -> ExecutePublish(locals, opts, files, repo, commands, env.validates, env.publishes)

\* the environments that make a difference to rollback of step k
RollbackEnvironments(k, opts) ==
    IF k = 3 /\ ~opts.dryRun
    THEN {Environment(f, TRUE, TRUE) : f \in {"none"} \cup Range(GitRollbackCommands)}
    ELSE {Environment("none", TRUE, TRUE)}

\* Deno.remove(path)
Remove(files, path) == [threw |-> files[path] = <<>>, files |-> [files EXCEPT ![path] = <<>>]]

\* pipelineSteps[k].rollback()
StepRollback(k, locals, opts, files, repo, env) ==
    CASE k = 1 ->
           Effect(FALSE, <<>>,
                  writeTextFile(files, locals.configPath,
                                locals.steps[1].result[1].originalContent, FALSE),
                  repo, <<>>, <<>>)
      [] k = 2 ->
           IF locals.steps[2].result[1].fileExistedBefore
           THEN Effect(FALSE, <<>>,
                       writeTextFile(files, CHANGELOG_FILE,
                                     locals.steps[2].result[1].originalContent, FALSE),
                       repo, <<>>, <<>>)
           ELSE Effect(Remove(files, CHANGELOG_FILE).threw, <<>>,
                       Remove(files, CHANGELOG_FILE).files, repo, <<>>, <<>>)
      [] k = 3 ->
           IF opts.dryRun THEN Effect(FALSE, <<>>, files, repo, <<>>, <<>>)
           ELSE Effect(rollbackGitChanges(repo, files, locals.steps[3].result[1].tagName,
                                          locals.steps[3].result[1].currentHead,
                                          env.failing).threw,
                       <<>>,
                       rollbackGitChanges(repo, files, locals.steps[3].result[1].tagName,
                                          locals.steps[3].result[1].currentHead,
                                          env.failing).files,
                       rollbackGitChanges(repo, files, locals.steps[3].result[1].tagName,
                                          locals.steps[3].result[1].currentHead,
                                          env.failing).repo,
                       <<>>, <<>>)
      [] k = 4 -> Effect(FALSE, <<>>, files, repo, <<>>, <<>>)

\* an entry of the run's record of what executeTransaction did
Event(op, step, threw) == [op |-> op, step |-> step, threw |-> threw]

RECURSIVE Reverse(_)
Reverse(xs) == IF xs = <<>> THEN <<>> ELSE Append(Reverse(Tail(xs)), Head(xs))

\* rollbackSteps in the order of the list, not reversed
RollbackOrderForward(steps) ==
    LET required(k) == steps[k].requiresRollback
    IN  SelectSeq([k \in 1..Len(steps) |-> k], required)

\* rollbackSteps(steps): the steps it rolls back, in its order
RollbackOrder(steps) ==
    LET required(k) == steps[k].requiresRollback
    IN  Reverse(SelectSeq([k \in 1..Len(steps) |-> k], required))

\* executeTransaction and publishPackage after the last rollback
AfterRollbacks(locals) ==
    IF locals.toRollback = <<>> THEN Outcome(locals, FALSE, locals.error)
    ELSE [locals EXCEPT !.at = "rollback"]

\* executeTransaction after execute of step locals.index did as effect says
AfterExecute(locals, effect) ==
    IF effect.threw
    THEN AfterRollbacks([locals EXCEPT
                            !.error = effect.error,
                            !.toRollback = RollbackOrder(locals.steps),
                            !.trace = Append(@, Event("execute", locals.index, TRUE))])
    ELSE IF locals.index = Len(locals.steps)
    THEN Outcome([locals EXCEPT
                     !.steps[locals.index] = [requiresRollback |-> TRUE, result |-> <<effect.result>>],
                     !.trace = Append(@, Event("execute", locals.index, FALSE))],
                 TRUE, <<>>)
    ELSE [locals EXCEPT
             !.steps[locals.index] = [requiresRollback |-> TRUE, result |-> <<effect.result>>],
             !.index = @ + 1,
             !.trace = Append(@, Event("execute", locals.index, FALSE))]

\* the variables after execute of the current step did as effect says
ExecuteWith(effect) ==
    /\ publish' = AfterExecute(publish, effect)
    /\ disk' = effect.files
    /\ git' = effect.repo
    /\ executed' = effect.commands

\* executeTransaction: the next step's execute, a throw caught
ExecuteStep ==
    /\ publish # <<>>
    /\ publish.at = "transaction"
    /\ \E env \in ExecuteEnvironments(publish.index, publishOptions) :
           ExecuteWith(StepExecute(publish.index, publish, publishOptions, disk, git, executed, env))
    /\ UNCHANGED publishOptions
    /\ UNCHANGED <<config, typeText, pending, lastCall, fileContent, filePath, project,
                   results, cliVars>>

\* the variables after rollback of the step rolled back next did as effect says
RollbackWith(effect) ==
    /\ publish' = AfterRollbacks([publish EXCEPT
                      !.toRollback = Tail(@),
                      !.trace = Append(@, Event("rollback", Head(publish.toRollback), effect.threw))])
    /\ disk' = effect.files
    /\ git' = effect.repo

\* rollbackSteps: rollback of the next step that requires it, a throw caught
RollbackStep ==
    /\ publish # <<>>
    /\ publish.at = "rollback"
    /\ \E env \in RollbackEnvironments(Head(publish.toRollback), publishOptions) :
           RollbackWith(StepRollback(Head(publish.toRollback), publish, publishOptions, disk, git, env))
    /\ UNCHANGED <<publishOptions, executed>>
    /\ UNCHANGED <<config, typeText, pending, lastCall, fileContent, filePath, project,
                   results, cliVars>>

NextPublish ==
    \/ PublishPackage
    \/ AnalyzeCommitHistory
    \/ UpdateBeforeTransaction
    \/ ExecuteStep
    \/ RollbackStep

\* Commit messages.
M_Feat == <<"f","e","a","t",":"," ","a">>
M_Fix == <<"f","i","x",":"," ","b">>
M_FixExclaims == <<"f","i","x",":"," ","b","!">>
M_FeatBreaking == <<"f","e","a","t","(","x",")","!",":"," ","c">>
M_Docs == <<"d","o","c","s",":"," ","d">>
M_DocsBreaking == <<"d","o","c","s",":"," ","d","\n","B","R","E","A","K","I","N","G"," ","C","H","A","N","G","E">>
M_PerfScoped == <<"p","e","r","f","(","x",")",":"," ","e">>
M_SkipRelease == <<"f","i","x",":"," ","[","S","k","i","p"," ","R","e","l","e","a","s","e","]">>

MessagePool == {M_Feat, M_Fix, M_FixExclaims, M_FeatBreaking, M_Docs, M_DocsBreaking, M_PerfScoped, M_SkipRelease}

MaxCommits == 2

\* the commits since the latest tag, newest first
CommitLogs == SeqsUpTo(MessagePool, MaxCommits)

PublishPaths == Range(CONFIG_FILES) \cup {CHANGELOG_FILE}

\* a working directory holding the config files and the changelog given,
\* each <<>> when absent
Directory(jsr, deno, changelog) ==
    [p \in PublishPaths |->
        CASE p = "jsr.json" -> jsr
          [] p = "deno.json" -> deno
          [] p = CHANGELOG_FILE -> changelog
          [] OTHER -> <<>>]

ConfigPool ==
    {<<<<ConfigData(TRUE, <<1, 2, 3>>)>>, <<>>>>,
     <<<<ConfigData(TRUE, <<1, 2, 3>>)>>, <<ConfigData(TRUE, <<0, 9, 9>>)>>>>,
     <<<<>>, <<ConfigData(TRUE, <<0, 9, 9>>)>>>>,
     <<<<>>, <<>>>>,
     <<<<ConfigData(TRUE, <<>>)>>, <<>>>>,
     <<<<ConfigData(FALSE, <<>>)>>, <<>>>>}

ChangelogPool ==
    {<<>>, <<<<>>>>, <<<<TitleBlock>>>>, <<<<TitleBlock, VersionBlock(<<1, 2, 3>>, NoGroups)>>>>}

Directories == {Directory(c[1], c[2], l) : c \in ConfigPool, l \in ChangelogPool}

StandardDirectory ==
    Directory(<<ConfigData(TRUE, <<1, 2, 3>>)>>, <<>>,
              <<<<TitleBlock, VersionBlock(<<1, 2, 3>>, NoGroups)>>>>)

\* the options of the command line (--dry-run, --skip-publish) and the
\* configFiles a caller of publishPackage may give
PublishOptions(dryRun, skipPublish, configFiles) ==
    [dryRun |-> dryRun, skipPublish |-> skipPublish, configFiles |-> configFiles]

\* the parser's and the command line's variables while the release script
\* is studied
LibraryIdle ==
    /\ config = DEFAULT_AST_CONFIG
    /\ NormalizerIdle
    /\ WalkerIdle
    /\ CliIdle

InitPublish ==
    /\ LibraryIdle
    /\ \/ /\ publishOptions \in {PublishOptions(d, s, <<>>) : d \in BOOLEAN, s \in BOOLEAN}
          /\ disk = StandardDirectory
          /\ git \in {Repository(TRUE, l, disk) : l \in CommitLogs}
       \/ /\ publishOptions \in {PublishOptions(d, s, c) : d \in BOOLEAN, s \in BOOLEAN,
                                                          c \in {<<>>, <<"deno.json">>}}
          /\ disk \in Directories
          /\ git \in {Repository(TRUE, l, disk) : l \in {<<M_Feat>>, <<M_Fix, M_SkipRelease>>}}
       \/ /\ publishOptions \in {PublishOptions(d, s, <<>>) : d \in BOOLEAN, s \in BOOLEAN}
          /\ disk = StandardDirectory
          /\ git = Repository(FALSE, <<>>, disk)
    /\ executed = <<>>
    /\ publish = PublishStart

SpecPublish == InitPublish /\ [][NextPublish]_vars

---------------------------------------------------------------------------
(* The release script: claims.                                             *)

\* the run has its commit messages, none of them asking to skip the release
MessagesAnalysed ==
    /\ publish.analysed
    /\ publish.error = <<>>
    /\ \A i \in 1..Len(publish.messages) : ~SkipReleasePattern(publish.messages[i])

\* an exclamation mark directly after the type and the optional scope
BangAfterType(message) ==
    /\ LeadingLower(message) >= 1
    /\ ScopeEnd(message, LeadingLower(message) + 1) <= Len(message)
    /\ message[ScopeEnd(message, LeadingLower(message) + 1)] = "!"

\* some message of the list satisfies the test
Some(messages, test(_)) == \E i \in 1..Len(messages) : test(messages[i])

MarkedBreaking(message) == Includes(message, S_BreakingChange) \/ BangAfterType(message)

HasFeatType(message) == TypeMatch(message) = <<S_FeatType>>

HasPatchType(message) == TypeMatch(message) \in {<<S_FixType>>, <<S_PerfType>>}

\* the highest-priority bump the commit message keywords ask for
HighestPriorityBump(messages) ==
    IF Some(messages, MarkedBreaking) THEN "major"
    ELSE IF Some(messages, HasFeatType) THEN "minor"
    ELSE IF Some(messages, HasPatchType) THEN "patch"
    ELSE "null"

\* C22: the bump determineBumpType returns for the commit messages is
\* 'major' if some message contains BREAKING CHANGE or has '!' directly
\* after its type/scope, otherwise 'minor' if some message has type feat,
\* otherwise 'patch' if some has type fix or perf, otherwise null, whatever
\* the order of the messages.
C22_HighestPriorityBump ==
    (MessagesAnalysed /\ publish.at # "analyze") =>
        /\ determineBumpType(publish.messages) = HighestPriorityBump(publish.messages)
        /\ publish.bump = HighestPriorityBump(publish.messages)

\* the repository has no release commit and no release tag, here or on
\* the remote
RepositoryUntouched ==
    /\ git.head = 0
    /\ git.remoteHead = 0
    /\ git.tags = {}
    /\ git.remoteTags = {}

\* C23: throughout a run of publishPackage with dryRun = true the config
\* files and the changelog are as they were at the start (content and
\* existence), the repository has no new commit, tag or push, and no deno
\* publish without --dry-run has been run; so they are at its end, however
\* it ends.
C23_DryRunChangesNothing ==
    publishOptions.dryRun =>
        /\ disk = git.tree
        /\ RepositoryUntouched
        /\ \A i \in 1..Len(executed) : executed[i] # PublishCommand(FALSE)

\* a dry run that went through the four steps and validated the publication
C23_Witness ==
    /\ publishOptions.dryRun
    /\ publish.at = "done"
    /\ Len(publish.trace) = 4
    /\ publish.result[1].success
    /\ executed = <<PublishCommand(TRUE)>>
    /\ disk[CHANGELOG_FILE] = <<>>

\* spellings of the marker that differ in case
SkipMarkers == {<<"[","s","k","i","p"," ","r","e","l","e","a","s","e","]">>,
                <<"[","S","k","i","p"," ","R","e","l","e","a","s","e","]">>,
                <<"[","S","K","I","P"," ","R","E","L","E","A","S","E","]">>}

\* some analysed commit message holds the marker in one of these spellings
SkipRequested ==
    /\ publish.analysed
    /\ \E i \in 1..Len(publish.messages) : \E marker \in SkipMarkers :
           Includes(publish.messages[i], marker)

\* C24: once the commit messages are analysed and one of them contains
\* [skip release], in any case, publishPackage has returned success = true
\* with newVersion = oldVersion and bumpType null, whatever the other
\* commits are; no config file and no changelog is written, nothing is
\* committed, tagged or pushed and no publish command is run.
C24_SkipReleaseBypasses ==
    SkipRequested =>
        /\ publish.at = "done"
        /\ publish.result[1].success
        /\ publish.result[1].newVersion = publish.result[1].oldVersion
        /\ publish.result[1].oldVersion = publish.currentVersion
        /\ publish.result[1].bumpType = "null"
        /\ disk = git.tree
        /\ RepositoryUntouched
        /\ executed = <<>>

\* a run skipped although another of its commits is a fix
C24_Witness ==
    /\ SkipRequested
    /\ publish.messages = <<M_Fix, M_SkipRelease>>
    /\ ~publishOptions.dryRun
    /\ publish.at = "done"

\* the number of execute entries in the record of the transaction
Executions == Cardinality({i \in 1..Len(publish.trace) : publish.trace[i].op = "execute"})

\* the execute of the step executed last threw
LastThrew == Executions >= 1 /\ publish.trace[Executions].threw

\* C26: executeTransaction executes the steps in list order; once step k
\* has thrown no further step is executed, and the rollbacks that follow
\* are those of steps k-1 down to 1 in that order, each run whether or not
\* the one before it threw, never that of step k; the result is then
\* success = false with step k's error message. When no step throws, all
\* steps are executed, no rollback runs and the result is success = true.
C26_RollbackInReverse ==
    publish.trace # <<>> =>
        /\ \A i \in 1..Executions :
               publish.trace[i] = Event("execute", i, i = Executions /\ LastThrew)
        /\ \A j \in (Executions + 1)..Len(publish.trace) :
               /\ LastThrew
               /\ publish.trace[j].op = "rollback"
               /\ publish.trace[j].step = Executions - (j - Executions)
        /\ \A k \in 1..Len(publish.steps) :
               publish.steps[k].requiresRollback <=> (k < Executions \/ (k = Executions /\ ~LastThrew))
        /\ (publish.at = "done" /\ LastThrew) =>
               /\ Len(publish.trace) = 2 * Executions - 1
               /\ ~publish.result[1].success
               /\ publish.result[1].errorMessage = publish.error
        /\ (publish.at = "done" /\ ~LastThrew) =>
               /\ Executions = Len(publish.steps)
               /\ Len(publish.trace) = Executions
               /\ publish.steps[Executions].result # <<>>
               /\ publish.result[1].success

\* step 4 threw, the rollback of step 3 threw, and those of steps 2 and 1
\* ran after it
C26_Witness ==
    /\ publish.at = "done"
    /\ Len(publish.trace) = 7
    /\ publish.trace[4] = Event("execute", 4, TRUE)
    /\ publish.trace[5] = Event("rollback", 3, TRUE)
    /\ publish.trace[7] = Event("rollback", 1, FALSE)

\* a run that made real changes ended after a step of its transaction threw
FailedAfterUpdates ==
    /\ ~publishOptions.dryRun
    /\ publish.at = "done"
    /\ publish.trace # <<>>
    /\ LastThrew

\* C27: when a run without dryRun has ended because a step failed after
\* the config file and the changelog were updated, the config file holds
\* the content it had before publishPackage was called and the changelog
\* is as it was before the call: its previous content, or absent if it did
\* not exist.
C27_RollbackRestoresFiles ==
    FailedAfterUpdates =>
        /\ disk[publish.configPath] = git.tree[publish.configPath]
        /\ disk[CHANGELOG_FILE] = git.tree[CHANGELOG_FILE]

\* step 4 returned { published: true }
Published == publish.steps[4].result # <<>> /\ publish.steps[4].result[1].published

\* a run that was to publish has ended, and the one deno command it ran is
\* a validation that failed
ValidationFailed ==
    /\ ~publishOptions.skipPublish
    /\ publish.at = "done"
    /\ executed = <<PublishCommand(TRUE)>>
    /\ ~Published

\* the rollbacks of steps 3, 2 and 1 have run, in this order
EarlierStepsRolledBack ==
    /\ Len(publish.trace) = 7
    /\ \A j \in 5..7 : publish.trace[j].op = "rollback" /\ publish.trace[j].step = 8 - j

\* C28: when skipPublish is false and the validation dry-run of the JSR
\* publication fails, the 'Publish to JSR' step fails: the real publish
\* command is not run, the steps before it are rolled back and
\* publishPackage returns success = false. publishPackage returns success
\* = true with a bumped newVersion only when the package was published, or
\* dryRun or skipPublish was requested.
C28_FailedValidationFailsTheRun ==
    /\ ValidationFailed =>
           /\ ~publish.result[1].success
           /\ EarlierStepsRolledBack
    /\ (publish.at = "done" /\ publish.result[1].success
            /\ publish.result[1].newVersion # publish.result[1].oldVersion) =>
           \/ \E i \in 1..Len(executed) : executed[i] = PublishCommand(FALSE)
           \/ publishOptions.dryRun
           \/ publishOptions.skipPublish

\* publishPackage has returned after reaching the commit analysis in a
\* working directory that is not a git repository
EndedOutsideRepository ==
    /\ ~git.isRepo
    /\ publish.at = "done"
    /\ publish.currentVersion # <<>>

\* C29: when the working directory is not a git repository, the commit
\* analysis reports the error and publishPackage returns success = false
\* with that error as errorMessage, having changed no file; a run whose
\* commit analysis failed is never reported as a success.
C29_NotARepositoryFails ==
    EndedOutsideRepository =>
        /\ ~publish.result[1].success
        /\ publish.result[1].errorMessage # <<>>
        /\ publish.error # <<>> => publish.result[1].errorMessage = publish.error
        /\ disk = git.tree

====
